---- MODULE Spec2Model ----
(***************************************************************************)
(* Model of the fitness-tracker account service (AuthService.js), its      *)
(* relational store (DatabaseService.js), App.initializeApp and the load,  *)
(* toggle, save and delete handlers of FitnessTrackerScreen.jsx.           *)
(*                                                                         *)
(* Every async function is modelled one await at a time: an action is one  *)
(* awaited operation, or the code that runs when an await resumes and      *)
(* writes shared state, so that the steps of calls that overlap interleave *)
(* wherever the code yields.                                               *)
(*                                                                         *)
(* Strings that the code inspects (emails, passwords, names, stored        *)
(* credentials) are sequences of one-character strings.  A value that may  *)
(* be null/undefined is a sequence of length 0 (null) or 1 (the value).    *)
(* Timestamps (created_at, logged_at, session timestamp) are not modelled. *)
(***************************************************************************)
EXTENDS Integers, Sequences, FiniteSets, TLC

VARIABLES db, storage, currentUser, call,
          activities, todayLogs, toggles, pair, tasks

vars == <<db, storage, currentUser, call,
          activities, todayLogs, toggles, pair, tasks>>

----------------------------------------------------------------------------
(* Bounds of the model *)

MaxUsers == 2
MaxActivities == 2
MaxLogId == 2
MaxInFlight == 2
MaxProfileId == 3
MaxInsertId == 1

(* Input sets *)

Emails ==
  { <<"a", "@", "b", ".", "c">>,
    <<"A", "@", "b", ".", "c">>,
    <<"z", "@", "b", ".", "c">>,
    <<"a", "b">> }

Passwords == { <<"P", "w", "1">>, <<"p", ":", "1">> }

FullNames == { <<"A", "l">>, <<" ", "A", " ">> }

RandomByteChoices == {7, 171}

UserIds == 1..2
ActivityIds == 1..2
Dates == {20240101, 20240102}

(* getTodayDate() *)
Today == 20240101

----------------------------------------------------------------------------
(* null / undefined *)

Null == <<>>
Some(v) == <<v>>
IsNull(o) == Len(o) = 0

----------------------------------------------------------------------------
(* String helpers *)

Lower(c) ==
  CASE c = "A" -> "a"
    [] c = "P" -> "p"
    [] c = "Z" -> "z"
    [] OTHER -> c

toLowerCase(s) == [i \in 1..Len(s) |-> Lower(s[i])]

IsSpace(c) == c \in {" ", "\t", "\n"}

RECURSIVE trimStart(_)
trimStart(s) ==
  IF Len(s) > 0 /\ IsSpace(s[1]) THEN trimStart(Tail(s)) ELSE s

RECURSIVE trimEnd(_)
trimEnd(s) ==
  IF Len(s) > 0 /\ IsSpace(s[Len(s)])
    THEN trimEnd(SubSeq(s, 1, Len(s) - 1))
    ELSE s

trim(s) == trimEnd(trimStart(s))

(* String.prototype.split(sep) for a one-character separator: the list of  *)
(* the pieces between the separators.                                      *)
RECURSIVE indexOf(_, _, _)
indexOf(s, sep, from) ==
  IF from > Len(s) THEN 0
  ELSE IF s[from] = sep THEN from
  ELSE indexOf(s, sep, from + 1)

RECURSIVE split(_, _)
split(s, sep) ==
  LET k == indexOf(s, sep, 1)
  IN  IF k = 0
        THEN <<s>>
        ELSE <<SubSeq(s, 1, k - 1)>> \o split(SubSeq(s, k + 1, Len(s)), sep)

HexDigits ==
  <<"0", "1", "2", "3", "4", "5", "6", "7",
    "8", "9", "a", "b", "c", "d", "e", "f">>

(* byte.toString(16).padStart(2, '0') *)
byteToHex(b) == <<HexDigits[(b \div 16) + 1], HexDigits[(b % 16) + 1]>>

Chars ==
  { "0", "1", "2", "3", "4", "5", "6", "7", "8", "9", ":", "@", ".", " ",
    "A", "P", "Z", "a", "b", "c", "d", "e", "f", "l", "p", "w", "z" }

CharCode ==
  [ c \in Chars |->
    CASE c = "0" -> 48 [] c = "1" -> 49 [] c = "2" -> 50 [] c = "3" -> 51
      [] c = "4" -> 52 [] c = "5" -> 53 [] c = "6" -> 54 [] c = "7" -> 55
      [] c = "8" -> 56 [] c = "9" -> 57 [] c = ":" -> 58 [] c = "@" -> 64
      [] c = "." -> 46 [] c = " " -> 32
      [] c = "A" -> 65 [] c = "P" -> 80 [] c = "Z" -> 90
      [] c = "a" -> 97 [] c = "b" -> 98 [] c = "c" -> 99 [] c = "d" -> 100
      [] c = "e" -> 101 [] c = "f" -> 102 [] c = "l" -> 108
      [] c = "p" -> 112 [] c = "w" -> 119 [] c = "z" -> 122 ]

(* Crypto.digestStringAsync(SHA256, s, HEX).  SHA-256 is modelled as an    *)
(* injective function into hex strings: the hex encoding of the input's    *)
(* character codes.                                                        *)
digestStringAsync(s) ==
  LET CharHex == [c \in Chars |-> byteToHex(CharCode[c])]
  IN
  [i \in 1..(2 * Len(s)) |-> CharHex[s[(i + 1) \div 2]][((i - 1) % 2) + 1]]

----------------------------------------------------------------------------
(* Credential hasher (AuthService.js) *)

SaltBytes == 16

(* README: minimum 8 characters *)
MinPasswordLength == 8

(* Crypto.getRandomBytesAsync(16): the model draws the same byte 16 times *)
RandomBytes == { [i \in 1..SaltBytes |-> b] : b \in RandomByteChoices }

generateSalt(randomBytes) ==
  [i \in 1..(2 * Len(randomBytes)) |-> byteToHex(randomBytes[(i + 1) \div 2])[((i - 1) % 2) + 1]]

(* variant: the password itself is stored after the salt *)
hashPasswordPlain(password, randomBytes) ==
  generateSalt(randomBytes) \o <<":">> \o password

hashPassword(password, randomBytes) ==
  LET salt == generateSalt(randomBytes)
      hash == digestStringAsync(password \o salt)
  IN  salt \o <<":">> \o hash

(* variant: the recomputed digest is never compared with the stored one *)
verifyPasswordNoCompare(password, storedHash) ==
  IF IsNull(storedHash)
    THEN FALSE
    ELSE Len(split(storedHash[1], ":")) >= 2

(* storedHash is a possibly-null string: null.split throws, which the     *)
(* catch turns into false; a missing second piece is undefined, which is   *)
(* never === to the computed digest.                                       *)
verifyPassword(password, storedHash) ==
  IF IsNull(storedHash)
    THEN FALSE
    ELSE LET parts == split(storedHash[1], ":")
             salt == parts[1]
             computedHash == digestStringAsync(password \o salt)
         IN  IF Len(parts) >= 2 THEN computedHash = parts[2] ELSE FALSE

(* variant: no try / catch, a TypeError of the body reaches the caller *)
verifyPasswordOutcomeNoCatch(password, storedHash) ==
  [ok |-> ~IsNull(storedHash), value |-> verifyPassword(password, storedHash)]

(* verifyPassword as a call: the body is inside try / catch, so the call  *)
(* always returns                                                          *)
verifyPasswordOutcome(password, storedHash) ==
  [ok |-> TRUE, value |-> verifyPassword(password, storedHash)]

(* /^[^\s@]+@[^\s@]+\.[^\s@]+$/ *)
validateEmail(email) ==
  \E p \in 1..Len(email) : \E q \in 1..Len(email) :
    /\ email[p] = "@"
    /\ email[q] = "."
    /\ p > 1
    /\ q > p + 1
    /\ q < Len(email)
    /\ \A i \in 1..Len(email) :
         /\ ~IsSpace(email[i])
         /\ (email[i] = "@" => i = p)

(* the validator is a stub: the errors list is never filled *)
validatePassword(password) ==
  LET errors == <<>>
  IN  [isValid |-> Len(errors) = 0, errors |-> errors]

----------------------------------------------------------------------------
(* Relational store (DatabaseService.js).  db is the database file: one    *)
(* set of rows per table and the AUTOINCREMENT counter of each table.      *)
(* Foreign keys are declared but SQLite does not enforce them unless       *)
(* PRAGMA foreign_keys is switched on, which the code never does.          *)

createTables ==
  [ users |-> {},
    user_profiles |-> {},
    fitness_activities |-> {},
    activity_logs |-> {},
    workout_sessions |-> {},
    body_measurements |-> {},
    sqlite_sequence |-> [ users |-> 0, user_profiles |-> 0,
                          fitness_activities |-> 0, activity_logs |-> 0,
                          workout_sessions |-> 0, body_measurements |-> 0 ] ]

(* variant: the email column has no UNIQUE constraint *)
createUserNoUnique(d, email, passwordHash, fullName) ==
  LET id == d.sqlite_sequence.users + 1
  IN  [ ok |-> TRUE,
        db |-> [d EXCEPT
          !.users = @ \cup {[ id |-> id, email |-> email,
                              password_hash |-> passwordHash,
                              full_name |-> fullName ]},
          !.sqlite_sequence.users = id],
        lastInsertRowId |-> id ]

(* INSERT INTO users: fails on the UNIQUE(email) constraint *)
createUser(d, email, passwordHash, fullName) ==
  IF \E u \in d.users : u.email = email
    THEN [ok |-> FALSE, db |-> d, lastInsertRowId |-> 0]
    ELSE LET id == d.sqlite_sequence.users + 1
         IN  [ ok |-> TRUE,
               db |-> [d EXCEPT
                 !.users = @ \cup {[ id |-> id, email |-> email,
                                     password_hash |-> passwordHash,
                                     full_name |-> fullName ]},
                 !.sqlite_sequence.users = id],
               lastInsertRowId |-> id ]

getUserByEmail(d, email) ==
  IF \E u \in d.users : u.email = email
    THEN Some(CHOOSE u \in d.users : u.email = email)
    ELSE Null

(* the SELECT list leaves password_hash out *)
getUserById(d, userId) ==
  IF \E u \in d.users : u.id = userId
    THEN LET u == CHOOSE u \in d.users : u.id = userId
         IN  Some([id |-> u.id, email |-> u.email, full_name |-> u.full_name])
    ELSE Null

(* SELECT id FROM user_profiles WHERE user_id = ? *)
profileExists(d, userId) == \E r \in d.user_profiles : r.user_id = userId

(* the write of createOrUpdateProfile after its SELECT found a row        *)
(* (existing) or none: the UPDATE changes the rows of the user that are    *)
(* there now; the INSERT throws when UNIQUE(user_id) is violated           *)
profileWrite(d, userId, profileData, existing) ==
  LET insertProfileRow ==   \* the INSERT
        LET id == d.sqlite_sequence.user_profiles + 1
        IN  [d EXCEPT
              !.user_profiles = @ \cup
                {[ id |-> id, user_id |-> userId,
                   age |-> profileData.age, weight |-> profileData.weight,
                   height |-> profileData.height, gender |-> profileData.gender,
                   fitness_goal |-> profileData.fitness_goal ]},
              !.sqlite_sequence.user_profiles = id]
  IN
  LET updateProfileRow ==   \* the UPDATE
        [d EXCEPT !.user_profiles =
          { IF p.user_id = userId
              THEN [ id |-> p.id, user_id |-> userId,
                     age |-> profileData.age, weight |-> profileData.weight,
                     height |-> profileData.height, gender |-> profileData.gender,
                     fitness_goal |-> profileData.fitness_goal ]
              ELSE p : p \in @ }]
  IN
  IF existing
    THEN [ok |-> TRUE, error |-> "", db |-> updateProfileRow]
  ELSE IF profileExists(d, userId)
    THEN [ ok |-> FALSE, db |-> d,
           error |-> "UNIQUE constraint failed: user_profiles.user_id" ]
  ELSE [ok |-> TRUE, db |-> insertProfileRow,
        error |-> ""]

(* createOrUpdateProfile when no other call runs between its SELECT and   *)
(* its write                                                               *)
createOrUpdateProfile(d, userId, profileData) ==
  profileWrite(d, userId, profileData, profileExists(d, userId)).db

createActivity(d, userId, activityData) ==
  LET id == d.sqlite_sequence.fitness_activities + 1
  IN  [ db |-> [d EXCEPT
          !.fitness_activities = @ \cup
            {[ id |-> id, user_id |-> userId,
               name |-> activityData.name,
               description |-> activityData.description,
               target_value |-> activityData.target_value,
               target_unit |-> activityData.target_unit,
               category |-> activityData.category,
               is_active |-> 1 ]},
          !.sqlite_sequence.fitness_activities = id],
        lastInsertRowId |-> id ]

(* UPDATE fitness_activities SET ... WHERE id = ?: the rows with the id,   *)
(* none when there is no such row; the icon column is not modelled         *)
updateActivity(d, activityId, activityData) ==
  [d EXCEPT !.fitness_activities =
    { IF a.id = activityId
        THEN [a EXCEPT !.name = activityData.name,
                       !.description = activityData.description,
                       !.target_value = activityData.target_value,
                       !.target_unit = activityData.target_unit,
                       !.category = activityData.category]
        ELSE a
      : a \in @ }]

(* rows only; ORDER BY created_at is not modelled *)
getActivitiesByUser(d, userId) ==
  { a \in d.fitness_activities : a.user_id = userId /\ a.is_active = 1 }

(* variant: the UPDATE has no WHERE clause *)
deleteActivityUnscoped(d, activityId) ==
  [d EXCEPT !.fitness_activities = { [a EXCEPT !.is_active = 0] : a \in @ }]

(* UPDATE fitness_activities SET is_active = 0 WHERE id = ? is run with an *)
(* empty parameter array: the placeholder stays unbound, SQLite reads an   *)
(* unbound placeholder as NULL, and id = NULL matches no row.              *)
deleteActivity(d, activityId) ==
  LET params == <<>>
      id == IF Len(params) >= 1 THEN Some(params[1]) ELSE Null
  IN  [d EXCEPT !.fitness_activities =
        { IF ~IsNull(id) /\ a.id = id[1] THEN [a EXCEPT !.is_active = 0] ELSE a
          : a \in @ }]

(* variant: plain INSERT into a table without the UNIQUE constraint *)
logActivityInsertOnly(d, userId, activityId, date, completed, actualValue, notes) ==
  LET id == d.sqlite_sequence.activity_logs + 1
      row == [ id |-> id, activity_id |-> activityId, user_id |-> userId,
               completed |-> IF completed THEN 1 ELSE 0,
               actual_value |-> actualValue, notes |-> notes,
               log_date |-> date ]
  IN  [ db |-> [d EXCEPT
          !.activity_logs = @ \cup {row},
          !.sqlite_sequence.activity_logs = id],
        replaced |-> {} ]

(* variant: the completed column is left to its DEFAULT 0 *)
logActivityOmitsCompleted(d, userId, activityId, date, completed, actualValue, notes) ==
  LET conflicts == { l \in d.activity_logs :
                       l.activity_id = activityId /\ l.log_date = date }
      id == d.sqlite_sequence.activity_logs + 1
      row == [ id |-> id, activity_id |-> activityId, user_id |-> userId,
               completed |-> 0,
               actual_value |-> actualValue, notes |-> notes,
               log_date |-> date ]
  IN  [ db |-> [d EXCEPT
          !.activity_logs = (@ \ conflicts) \cup {row},
          !.sqlite_sequence.activity_logs = id],
        replaced |-> conflicts ]

(* variant: INSERT OR IGNORE, a colliding insert is dropped *)
logActivityOrIgnore(d, userId, activityId, date, completed, actualValue, notes) ==
  LET conflicts == { l \in d.activity_logs :
                       l.activity_id = activityId /\ l.log_date = date }
      id == d.sqlite_sequence.activity_logs + 1
      row == [ id |-> id, activity_id |-> activityId, user_id |-> userId,
               completed |-> IF completed THEN 1 ELSE 0,
               actual_value |-> actualValue, notes |-> notes,
               log_date |-> date ]
  IN  IF conflicts /= {}
        THEN [db |-> d, replaced |-> {}]
        ELSE [ db |-> [d EXCEPT
                 !.activity_logs = @ \cup {row},
                 !.sqlite_sequence.activity_logs = id],
               replaced |-> {} ]

(* variant: an upsert that keeps the stored actual_value and notes when   *)
(* the call gives none                                                     *)
logActivityKeepsExtras(d, userId, activityId, date, completed, actualValue, notes) ==
  LET conflicts == { l \in d.activity_logs :
                       l.activity_id = activityId /\ l.log_date = date }
      old == IF conflicts = {} THEN Null
                               ELSE Some(CHOOSE l \in conflicts : TRUE)
      id == d.sqlite_sequence.activity_logs + 1
      row == [ id |-> id, activity_id |-> activityId, user_id |-> userId,
               completed |-> IF completed THEN 1 ELSE 0,
               actual_value |-> IF IsNull(actualValue) /\ ~IsNull(old)
                                  THEN old[1].actual_value ELSE actualValue,
               notes |-> IF IsNull(notes) /\ ~IsNull(old)
                           THEN old[1].notes ELSE notes,
               log_date |-> date ]
  IN  [ db |-> [d EXCEPT
          !.activity_logs = (@ \ conflicts) \cup {row},
          !.sqlite_sequence.activity_logs = id],
        replaced |-> conflicts ]

(* INSERT OR REPLACE: the rows that collide on UNIQUE(activity_id,         *)
(* log_date) are deleted, then the new row is inserted with a fresh id.    *)
(* replaced reports the rows the statement deleted.                        *)
logActivity(d, userId, activityId, date, completed, actualValue, notes) ==
  LET conflicts == { l \in d.activity_logs :
                       l.activity_id = activityId /\ l.log_date = date }
      id == d.sqlite_sequence.activity_logs + 1
      row == [ id |-> id, activity_id |-> activityId, user_id |-> userId,
               completed |-> IF completed THEN 1 ELSE 0,
               actual_value |-> actualValue, notes |-> notes,
               log_date |-> date ]
  IN  [ db |-> [d EXCEPT
          !.activity_logs = (@ \ conflicts) \cup {row},
          !.sqlite_sequence.activity_logs = id],
        replaced |-> conflicts ]

(* activity_logs JOIN fitness_activities, one record per joined pair *)
getActivityLogsForDate(d, userId, date) ==
  { [ log |-> al, name |-> fa.name, description |-> fa.description,
      target_value |-> fa.target_value, target_unit |-> fa.target_unit,
      category |-> fa.category ]
    : <<al, fa>> \in
        { x \in d.activity_logs \X d.fitness_activities :
            /\ x[1].activity_id = x[2].id
            /\ x[1].user_id = userId
            /\ x[1].log_date = date } }

(* AVG(x) * 100 over a group in which sum of the n values x are 1.0 and    *)
(* the others 0.0, as the exact fraction num / den; AVG of no value is     *)
(* NULL.                                                                   *)
avgTimes100(sum, n) ==
  IF n = 0 THEN Null ELSE Some([num |-> 100 * sum, den |-> n])

(* the rows fa LEFT JOIN activity_logs produces for one activity: one per  *)
(* log of the activity dated in [startDate, endDate], and when there is    *)
(* none, one row whose al columns are all NULL                             *)
leftJoinLogs(d, fa, startDate, endDate) ==
  LET matches == { al \in d.activity_logs :
                     /\ fa.id = al.activity_id
                     /\ al.log_date >= startDate
                     /\ al.log_date <= endDate }
  IN  IF matches = {} THEN {Null} ELSE { Some(al) : al \in matches }

(* variant: completed_count is COUNT(al.completed), every log counts *)
getActivityStatsCountsEveryLog(d, userId, startDate, endDate) ==
  { LET group == leftJoinLogs(d, fa, startDate, endDate)
        completedRows == { r \in group : ~IsNull(r) }
    IN  [ id |-> fa.id, name |-> fa.name, category |-> fa.category,
          completed_count |-> Cardinality(completedRows),
          total_count |-> Cardinality(group),
          completion_rate |-> avgTimes100(Cardinality(completedRows),
                                          Cardinality(group)) ]
    : fa \in { a \in d.fitness_activities :
                 a.user_id = userId /\ a.is_active = 1 } }

(* variant: JOIN instead of LEFT JOIN, an activity without a log in the    *)
(* range has no group                                                      *)
getActivityStatsInnerJoin(d, userId, startDate, endDate) ==
  { LET group == leftJoinLogs(d, fa, startDate, endDate)
        completedRows == { r \in group : r[1].completed = 1 }
    IN  [ id |-> fa.id, name |-> fa.name, category |-> fa.category,
          completed_count |-> Cardinality(completedRows),
          total_count |-> Cardinality(group),
          completion_rate |-> avgTimes100(Cardinality(completedRows),
                                          Cardinality(group)) ]
    : fa \in { a \in d.fitness_activities :
                 /\ a.user_id = userId
                 /\ a.is_active = 1
                 /\ leftJoinLogs(d, a, startDate, endDate) /= {Null} } }

(* one result row per active activity of the user (GROUP BY fa.id).        *)
(* al.completed = 1 is not true on the NULL row, so the CASE of            *)
(* completed_count yields NULL there (not counted) and the CASE of         *)
(* completion_rate yields 0.0; COUNT( * ) counts every row of the group.   *)
getActivityStats(d, userId, startDate, endDate) ==
  { LET group == leftJoinLogs(d, fa, startDate, endDate)
        completedRows == { r \in group : ~IsNull(r) /\ r[1].completed = 1 }
    IN  [ id |-> fa.id, name |-> fa.name, category |-> fa.category,
          completed_count |-> Cardinality(completedRows),
          total_count |-> Cardinality(group),
          completion_rate |-> avgTimes100(Cardinality(completedRows),
                                          Cardinality(group)) ]
    : fa \in { a \in d.fitness_activities :
                 a.user_id = userId /\ a.is_active = 1 } }

createWorkoutSession(d, userId, sessionData) ==
  LET id == d.sqlite_sequence.workout_sessions + 1
  IN  [ db |-> [d EXCEPT
          !.workout_sessions = @ \cup
            {[ id |-> id, user_id |-> userId,
               workout_type |-> sessionData.workout_type,
               duration_minutes |-> sessionData.duration_minutes,
               calories_burned |-> sessionData.calories_burned,
               intensity |-> sessionData.intensity,
               notes |-> sessionData.notes,
               session_date |-> sessionData.session_date ]},
          !.sqlite_sequence.workout_sessions = id],
        lastInsertRowId |-> id ]

addBodyMeasurement(d, userId, measurementData) ==
  LET id == d.sqlite_sequence.body_measurements + 1
  IN  [ db |-> [d EXCEPT
          !.body_measurements = @ \cup
            {[ id |-> id, user_id |-> userId,
               weight |-> measurementData.weight,
               body_fat_percentage |-> measurementData.body_fat_percentage,
               muscle_mass |-> measurementData.muscle_mass,
               waist_circumference |-> measurementData.waist_circumference,
               measurement_date |-> measurementData.measurement_date ]},
          !.sqlite_sequence.body_measurements = id],
        lastInsertRowId |-> id ]

(* the tables of the DELETE statements of clearUserData, in the order of  *)
(* the script                                                              *)
clearStatements ==
  << "activity_logs", "fitness_activities", "workout_sessions",
     "body_measurements", "user_profiles" >>

(* variant: the DELETE has no WHERE clause *)
deleteFromUnscoped(d, table, userId) ==
  [d EXCEPT ![table] = {}]

(* DELETE FROM table WHERE user_id = userId, committed on its own: the    *)
(* script opens no transaction, so SQLite runs each statement in           *)
(* autocommit mode.  Foreign keys are not enforced, nothing cascades.      *)
deleteFrom(d, table, userId) ==
  [d EXCEPT ![table] = { r \in @ : r.user_id /= userId }]

(* the statements first..last of the script, one after the other *)
RECURSIVE execStatements(_, _, _, _)
execStatements(d, userId, first, last) ==
  IF first > last
    THEN d
    ELSE execStatements(deleteFrom(d, clearStatements[first], userId),
                        userId, first + 1, last)

----------------------------------------------------------------------------
(* Account service (AuthService.js) *)

(* the catalog of AuthService.createDefaultActivities, icons left out *)
defaultActivities ==
  << [ name |-> "Hydration", description |-> "Drink water throughout the day",
       target_value |-> Some(8), target_unit |-> "glasses", category |-> "nutrition" ],
     [ name |-> "Cardio", description |-> "Cardiovascular exercise",
       target_value |-> Some(30), target_unit |-> "minutes", category |-> "exercise" ],
     [ name |-> "Strength", description |-> "Strength training workout",
       target_value |-> Some(45), target_unit |-> "minutes", category |-> "exercise" ],
     [ name |-> "Stretching", description |-> "Flexibility and mobility work",
       target_value |-> Some(15), target_unit |-> "minutes", category |-> "recovery" ],
     [ name |-> "Sleep", description |-> "Quality sleep",
       target_value |-> Some(8), target_unit |-> "hours", category |-> "recovery" ],
     [ name |-> "Healthy Meal", description |-> "Balanced, nutritious meal",
       target_value |-> Some(3), target_unit |-> "meals", category |-> "nutrition" ],
     [ name |-> "Track Progress", description |-> "Log weight or measurements",
       target_value |-> Some(1), target_unit |-> "entry", category |-> "tracking" ] >>

RECURSIVE createActivitiesFrom(_, _, _)
createActivitiesFrom(d, userId, list) ==
  IF Len(list) = 0
    THEN d
    ELSE createActivitiesFrom(createActivity(d, userId, Head(list)).db,
                              userId, Tail(list))

(* createDefaultActivities run alone: the catalog inserted in order *)
createDefaultActivities(d, userId) ==
  createActivitiesFrom(d, userId, defaultActivities)

(* the profile register creates: every field null *)
initialProfile ==
  [ age |-> Null, weight |-> Null, height |-> Null,
    gender |-> Null, fitness_goal |-> Null ]

(* JSON.stringify / JSON.parse of the session object.  A stored text is   *)
(* a record: one with a json field is the serialization of that value,     *)
(* any other is a text JSON.parse throws on.                               *)
JSONstringify(value) == [json |-> value]
JSONparse(text) == text.json
parses(text) == "json" \in DOMAIN text

(* the checks register makes before its first await: the error message   *)
(* of the first check that fails, or ok                                    *)
registerValidation(email, password, fullName) ==
  IF ~validateEmail(email)
    THEN [ok |-> FALSE, error |-> "Invalid email format"]
  ELSE IF ~validatePassword(password).isValid
    THEN [ok |-> FALSE, error |-> ""]
  ELSE IF Len(fullName) = 0 \/ Len(trim(fullName)) < 2
    THEN [ok |-> FALSE, error |-> "Full name must be at least 2 characters"]
  ELSE [ok |-> TRUE, error |-> ""]

(* variant: the existence check looks the email up as typed *)
registerLookupCaseSensitive(d, email) == getUserByEmail(d, email)

(* the existence check of register *)
registerLookup(d, email) == getUserByEmail(d, toLowerCase(email))

(* the result of a register call that runs alone on database d, before   *)
(* the session is written; the INSERT of createUser throws when            *)
(* UNIQUE(email) is violated                                               *)
registerOutcome(d, email, password, fullName, randomBytes) ==
  IF ~registerValidation(email, password, fullName).ok
    THEN [ ok |-> FALSE,
           error |-> registerValidation(email, password, fullName).error,
           db |-> d, user |-> Null ]
  ELSE IF ~IsNull(registerLookup(d, email))
    THEN [ok |-> FALSE, error |-> "Email already registered", db |-> d, user |-> Null]
  ELSE
    LET passwordHash == hashPassword(password, randomBytes)
        created == createUser(d, toLowerCase(email), passwordHash, trim(fullName))
        userId == created.lastInsertRowId
        withProfile == createOrUpdateProfile(created.db, userId, initialProfile)
        withActivities == createDefaultActivities(withProfile, userId)
        user == getUserById(withActivities, userId)
    IN  IF ~created.ok
          THEN [ ok |-> FALSE, error |-> "UNIQUE constraint failed: users.email",
                 db |-> d, user |-> Null ]
          ELSE [ok |-> TRUE, error |-> "", db |-> withActivities, user |-> user]

(* variant: the email is looked up as typed, not lower-cased *)
loginLookupCaseSensitive(d, email) == getUserByEmail(d, email)

(* the row login looks up *)
loginLookup(d, email) == getUserByEmail(d, toLowerCase(email))

(* variant: an unknown email gets an error message of its own *)
unknownEmailErrorTellsUnknown == "No account for this email"

(* the message login throws when no user has the email *)
unknownEmailError == "Invalid email or password"

(* the message login throws when the password does not verify *)
wrongPasswordError == "Invalid email or password"

(* variant: the row is returned as stored, password_hash included *)
withoutPasswordKeepsHash(row) == row

(* const { password_hash, ...userWithoutPassword } = user *)
withoutPassword(row) ==
  [id |-> row.id, email |-> row.email, full_name |-> row.full_name]

(* the result of a login call that runs alone on database d, before the  *)
(* session is written; digests counts the digestStringAsync computations   *)
(* of the run                                                              *)
loginOutcome(d, email, password) ==
  LET user == loginLookup(d, email)
  IN  IF IsNull(user)
        THEN [ ok |-> FALSE, error |-> unknownEmailError,
               user |-> Null, digests |-> 0 ]
      ELSE IF ~verifyPassword(password, Some(user[1].password_hash))
        THEN [ ok |-> FALSE, error |-> wrongPasswordError,
               user |-> Null, digests |-> 1 ]
      ELSE [ ok |-> TRUE, error |-> "",
             user |-> Some(withoutPassword(user[1])), digests |-> 1 ]

----------------------------------------------------------------------------
(* State.                                                                  *)
(*   db           the SQLite database file                                 *)
(*   storage      the AsyncStorage entry under SESSION_KEY                 *)
(*   currentUser  AuthService.currentUser                                  *)
(*   tasks        the asynchronous calls in flight, one per caller: the    *)
(*                call, the await it is at (pc), its arguments and locals; *)
(*                a call that has returned or thrown stays as a record     *)
(*                with pc = "done" and its outcome until the caller makes  *)
(*                its next call                                            *)
(*   call         the last call that completed, its arguments and          *)
(*                outcome.  For AuthService calls it also carries authed:  *)
(*                the user of the last register or login that succeeded    *)
(*                with no logout since, and the stored session that call   *)
(*                replaced                                                 *)
(*   activities, todayLogs   state of FitnessTrackerScreen                 *)
(*   toggles      the toggleActivity runs in flight                        *)
(*   pair         bookkeeping of overlapping toggles of one activity:      *)
(*                the completed value in the store when the first started, *)
(*                how many started and how many finished                   *)

(* the callers whose calls may overlap, and the one caller of the         *)
(* specifications in which every call is awaited before the next is made   *)
Callers == {1, 2}
Client == 1

noTasks ==
  LET idleTask == [op |-> "none", pc |-> "idle"]
  IN
  [p \in Callers |-> idleTask]

noCall == [op |-> "none", ok |-> TRUE, error |-> "", authed |-> Null]

Init ==
  /\ db = createTables
  /\ storage = Null
  /\ currentUser = Null
  /\ call = noCall
  /\ activities = {}
  /\ todayLogs = <<>>
  /\ toggles = <<>>
  /\ pair = Null
  /\ tasks = noTasks

screenVars == <<activities, todayLogs, toggles, pair>>

(* caller p has no call in flight *)
free(p) == tasks[p].pc \in {"idle", "done"}

(* no call is in flight *)
quiescent == \A p \in Callers : free(p)

(* authed of the last completed call; store calls carry none *)
authedOf(c) == IF "authed" \in DOMAIN c THEN c.authed ELSE Null

(* the session as a call finds it when it starts *)
session == [storage |-> storage, currentUser |-> currentUser]

(* the call of caller p returns or throws: rec is its record *)
returns(p, rec) ==
  /\ tasks' = [tasks EXCEPT ![p] = rec]
  /\ call' = rec

(* the call of caller p moves on to its next await *)
proceeds(p, rec) ==
  /\ tasks' = [tasks EXCEPT ![p] = rec]
  /\ call' = call

(* the call of caller p throws the error with this message *)
throws(p, message) ==
  returns(p, [tasks[p] EXCEPT !.pc = "done", !.ok = FALSE, !.error = message,
                              !.authed = authedOf(call)])

----------------------------------------------------------------------------
(* AuthService.register.  The call runs its three validations up to its   *)
(* first await in one step; after that every awaited operation is a step   *)
(* of its own, and the steps of calls that overlap interleave in any       *)
(* order.  A call that throws undoes nothing.                              *)

(* existing: a user with the lower-cased email is stored when the call    *)
(* starts; sessionBefore: the session at that moment                       *)
RegStart(p, email, password, fullName) ==
  /\ free(p)
  /\ LET valid == registerValidation(email, password, fullName)
         existing == \E u \in db.users : u.email = toLowerCase(email)
         r == [ op |-> "register", pc |-> "getUserByEmail", email |-> email,
                password |-> password, fullName |-> fullName,
                existing |-> existing, sessionBefore |-> session,
                passwordHash |-> <<>>, userId |-> 0, profileExists |-> FALSE,
                created |-> 0, user |-> Null, replaced |-> Null,
                ok |-> FALSE, error |-> "", value |-> Null, authed |-> Null ]
     IN  /\ (valid.ok /\ ~existing) => db.sqlite_sequence.users < MaxUsers
         /\ IF valid.ok
              THEN proceeds(p, r)
              ELSE returns(p, [r EXCEPT !.pc = "done", !.error = valid.error,
                                        !.authed = authedOf(call)])
  /\ UNCHANGED <<db, storage, currentUser, screenVars>>

(* const existingUser = await DatabaseService.getUserByEmail(...) *)
RegGetUserByEmail(p) ==
  /\ tasks[p].op = "register" /\ tasks[p].pc = "getUserByEmail"
  /\ IF ~IsNull(registerLookup(db, tasks[p].email))
       THEN throws(p, "Email already registered")
       ELSE proceeds(p, [tasks[p] EXCEPT !.pc = "hashPassword"])
  /\ UNCHANGED <<db, storage, currentUser, screenVars>>

(* const passwordHash = await this.hashPassword(password) *)
RegHashPassword(p, randomBytes) ==
  /\ tasks[p].op = "register" /\ tasks[p].pc = "hashPassword"
  /\ proceeds(p, [tasks[p] EXCEPT
       !.passwordHash = hashPassword(tasks[p].password, randomBytes),
       !.pc = "createUser"])
  /\ UNCHANGED <<db, storage, currentUser, screenVars>>

(* const userId = await DatabaseService.createUser(...) *)
RegCreateUser(p) ==
  /\ tasks[p].op = "register" /\ tasks[p].pc = "createUser"
  /\ \E created \in {createUser(db, toLowerCase(tasks[p].email),
                                tasks[p].passwordHash,
                                trim(tasks[p].fullName))} :
       /\ created.ok => db.sqlite_sequence.users < MaxUsers
       /\ db' = created.db
       /\ IF created.ok
            THEN proceeds(p, [tasks[p] EXCEPT
                   !.userId = created.lastInsertRowId,
                   !.pc = "profileSelect"])
            ELSE throws(p, "UNIQUE constraint failed: users.email")
  /\ UNCHANGED <<storage, currentUser, screenVars>>

(* createOrUpdateProfile: the awaited SELECT *)
RegProfileSelect(p) ==
  /\ tasks[p].op = "register" /\ tasks[p].pc = "profileSelect"
  /\ proceeds(p, [tasks[p] EXCEPT
       !.profileExists = profileExists(db, tasks[p].userId),
       !.pc = "profileWrite"])
  /\ UNCHANGED <<db, storage, currentUser, screenVars>>

(* createOrUpdateProfile: the awaited UPDATE or INSERT *)
RegProfileWrite(p) ==
  /\ tasks[p].op = "register" /\ tasks[p].pc = "profileWrite"
  /\ \E out \in {profileWrite(db, tasks[p].userId, initialProfile,
                              tasks[p].profileExists)} :
       /\ db' = out.db
       /\ IF out.ok
            THEN proceeds(p, [tasks[p] EXCEPT !.pc = "createActivity"])
            ELSE throws(p, out.error)
  /\ UNCHANGED <<storage, currentUser, screenVars>>

(* variant: the loop of createDefaultActivities leaves out the last       *)
(* activity of the catalog                                                  *)
RegCreateActivityStopsEarly(p) ==
  /\ tasks[p].op = "register" /\ tasks[p].pc = "createActivity"
  /\ db' = createActivity(db, tasks[p].userId,
                          defaultActivities[tasks[p].created + 1]).db
  /\ proceeds(p, [tasks[p] EXCEPT
       !.created = @ + 1,
       !.pc = IF tasks[p].created + 2 >= Len(defaultActivities)
                THEN "getUserById" ELSE "createActivity"])
  /\ UNCHANGED <<storage, currentUser, screenVars>>

(* createDefaultActivities: one awaited createActivity of its loop;       *)
(* created counts the inserts the call has made                            *)
RegCreateActivity(p) ==
  /\ tasks[p].op = "register" /\ tasks[p].pc = "createActivity"
  /\ db' = createActivity(db, tasks[p].userId,
                          defaultActivities[tasks[p].created + 1]).db
  /\ proceeds(p, [tasks[p] EXCEPT
       !.created = @ + 1,
       !.pc = IF tasks[p].created + 1 = Len(defaultActivities)
                THEN "getUserById" ELSE "createActivity"])
  /\ UNCHANGED <<storage, currentUser, screenVars>>

(* const user = await DatabaseService.getUserById(userId) *)
RegGetUserById(p) ==
  /\ tasks[p].op = "register" /\ tasks[p].pc = "getUserById"
  /\ proceeds(p, [tasks[p] EXCEPT !.user = getUserById(db, tasks[p].userId),
                                  !.pc = "setItem"])
  /\ UNCHANGED <<db, storage, currentUser, screenVars>>

(* createSession: the awaited AsyncStorage.setItem *)
RegSetItem(p) ==
  /\ tasks[p].op = "register" /\ tasks[p].pc = "setItem"
  /\ storage' = Some(JSONstringify([user |-> tasks[p].user[1]]))
  /\ proceeds(p, [tasks[p] EXCEPT !.replaced = storage,
                                  !.pc = "setCurrentUser"])
  /\ UNCHANGED <<db, currentUser, screenVars>>

(* createSession after the await: this.currentUser = user; register       *)
(* returns the user                                                        *)
RegSetCurrentUser(p) ==
  /\ tasks[p].op = "register" /\ tasks[p].pc = "setCurrentUser"
  /\ currentUser' = Some(tasks[p].user[1])
  /\ returns(p, [tasks[p] EXCEPT
       !.pc = "done", !.ok = TRUE, !.value = tasks[p].user,
       !.authed = Some([ user |-> tasks[p].user[1],
                         replaced |-> tasks[p].replaced ])])
  /\ UNCHANGED <<db, storage, screenVars>>

(* an awaited operation of register made after the user row was inserted  *)
(* rejects (the store or the session storage fails): the SELECT or the     *)
(* write of createOrUpdateProfile, an insert of createDefaultActivities,   *)
(* getUserById, or the setItem of createSession.  The catch blocks log and *)
(* rethrow; nothing is undone.                                             *)
RegAwaitRejects(p) ==
  /\ tasks[p].op = "register"
  /\ tasks[p].pc \in {"profileSelect", "profileWrite", "createActivity",
                      "getUserById", "setItem"}
  /\ throws(p, "rejected")
  /\ UNCHANGED <<db, storage, currentUser, screenVars>>

----------------------------------------------------------------------------
(* AuthService.login, one step per await *)

(* the user id returned by the call before, when that call was a register *)
(* that succeeded with this email and password; null otherwise             *)
justRegistered(before, email, password) ==
  IF /\ before.op = "register"
     /\ before.ok
     /\ before.email = email
     /\ before.password = password
    THEN Some(before.value[1].id)
    ELSE Null

(* const user = await DatabaseService.getUserByEmail(email.toLowerCase()) *)
(* and the throw when there is none                                        *)
LoginGetUserByEmail(p, email, password) ==
  /\ free(p)
  /\ LET r == [ op |-> "login", pc |-> "verifyPassword", email |-> email,
                password |-> password, row |-> loginLookup(db, email),
                sessionBefore |-> session,
                justRegistered |-> justRegistered(call, email, password),
                digests |-> 0, user |-> Null, replaced |-> Null,
                ok |-> FALSE, error |-> "", value |-> Null, authed |-> Null ]
     IN  IF IsNull(r.row)
           THEN returns(p, [r EXCEPT !.pc = "done", !.error = unknownEmailError,
                                     !.authed = authedOf(call)])
           ELSE proceeds(p, r)
  /\ UNCHANGED <<db, storage, currentUser, screenVars>>

(* variant: a rejected login drops the session *)
LoginVerifyPasswordDropsSession(p) ==
  /\ tasks[p].op = "login" /\ tasks[p].pc = "verifyPassword"
  /\ IF verifyPassword(tasks[p].password,
                       Some(tasks[p].row[1].password_hash))
       THEN /\ proceeds(p, [tasks[p] EXCEPT
                 !.digests = 1,
                 !.user = Some(withoutPassword(tasks[p].row[1])),
                 !.pc = "setItem"])
            /\ UNCHANGED <<storage, currentUser>>
       ELSE /\ returns(p, [tasks[p] EXCEPT
                 !.pc = "done", !.digests = 1, !.error = wrongPasswordError,
                 !.authed = authedOf(call)])
            /\ storage' = Null
            /\ currentUser' = Null
  /\ UNCHANGED <<db, screenVars>>

(* const isValid = await this.verifyPassword(password, user.password_hash) *)
(* on the row the lookup returned, and the throw when it is false          *)
LoginVerifyPassword(p) ==
  /\ tasks[p].op = "login" /\ tasks[p].pc = "verifyPassword"
  /\ IF verifyPassword(tasks[p].password,
                       Some(tasks[p].row[1].password_hash))
       THEN proceeds(p, [tasks[p] EXCEPT
              !.digests = 1,
              !.user = Some(withoutPassword(tasks[p].row[1])),
              !.pc = "setItem"])
       ELSE returns(p, [tasks[p] EXCEPT
              !.pc = "done", !.digests = 1, !.error = wrongPasswordError,
              !.authed = authedOf(call)])
  /\ UNCHANGED <<db, storage, currentUser, screenVars>>

(* variant: the session is kept in memory only *)
LoginSetItemMemoryOnly(p) ==
  /\ tasks[p].op = "login" /\ tasks[p].pc = "setItem"
  /\ storage' = storage
  /\ proceeds(p, [tasks[p] EXCEPT !.replaced = storage,
                                  !.pc = "setCurrentUser"])
  /\ UNCHANGED <<db, currentUser, screenVars>>

(* createSession: the awaited AsyncStorage.setItem *)
LoginSetItem(p) ==
  /\ tasks[p].op = "login" /\ tasks[p].pc = "setItem"
  /\ storage' = Some(JSONstringify([user |-> tasks[p].user[1]]))
  /\ proceeds(p, [tasks[p] EXCEPT !.replaced = storage,
                                  !.pc = "setCurrentUser"])
  /\ UNCHANGED <<db, currentUser, screenVars>>

(* createSession after the await: this.currentUser = user; login returns  *)
(* the user                                                                *)
LoginSetCurrentUser(p) ==
  /\ tasks[p].op = "login" /\ tasks[p].pc = "setCurrentUser"
  /\ currentUser' = tasks[p].user
  /\ returns(p, [tasks[p] EXCEPT
       !.pc = "done", !.ok = TRUE, !.value = tasks[p].user,
       !.authed = Some([ user |-> tasks[p].user[1],
                         replaced |-> tasks[p].replaced ])])
  /\ UNCHANGED <<db, storage, screenVars>>

----------------------------------------------------------------------------
(* AuthService.logout *)

(* variant: the stored session is not removed *)
LogoutRemoveItemKeepsEntry(p) ==
  /\ free(p)
  /\ storage' = storage
  /\ proceeds(p, [ op |-> "logout", pc |-> "setCurrentUser",
                   again |-> call.op = "logout",
                   ok |-> FALSE, error |-> "", authed |-> Null ])
  /\ UNCHANGED <<db, currentUser, screenVars>>

(* await AsyncStorage.removeItem(SESSION_KEY); again: the call that       *)
(* completed before was a logout too                                       *)
LogoutRemoveItem(p) ==
  /\ free(p)
  /\ storage' = Null
  /\ proceeds(p, [ op |-> "logout", pc |-> "setCurrentUser",
                   again |-> call.op = "logout",
                   ok |-> FALSE, error |-> "", authed |-> Null ])
  /\ UNCHANGED <<db, currentUser, screenVars>>

(* logout after its await: this.currentUser = null *)
LogoutSetCurrentUser(p) ==
  /\ tasks[p].op = "logout" /\ tasks[p].pc = "setCurrentUser"
  /\ currentUser' = Null
  /\ returns(p, [tasks[p] EXCEPT !.pc = "done", !.ok = TRUE])
  /\ UNCHANGED <<db, storage, screenVars>>

----------------------------------------------------------------------------
(* AuthService.getCurrentUser, and App.initializeApp, which calls it when *)
(* the process starts                                                      *)

(* variant: no try / catch, what getItem or JSON.parse throws reaches the *)
(* caller                                                                  *)
getCurrentUserOutcomeNoCatch(stored, readFails) ==
  IF readFails
    THEN [ok |-> FALSE, error |-> "getItem failed", value |-> Null, assign |-> FALSE]
  ELSE IF IsNull(stored)
    THEN [ok |-> TRUE, error |-> "", value |-> Null, assign |-> FALSE]
  ELSE IF ~parses(stored[1])
    THEN [ok |-> FALSE, error |-> "SyntaxError", value |-> Null, assign |-> FALSE]
  ELSE LET parsed == JSONparse(stored[1])
       IN  [ ok |-> TRUE, error |-> "",
             value |-> IF "user" \in DOMAIN parsed
                         THEN Some(parsed.user) ELSE Null,
             assign |-> TRUE ]

(* what getCurrentUser does after its await, when stored is what getItem  *)
(* returned and readFails tells whether getItem rejected.  A rejected      *)
(* read and a text JSON.parse throws on end in the catch, which returns    *)
(* null; a missing entry returns null before the parse.  Otherwise         *)
(* session.user (undefined when the parsed value has no user) is assigned  *)
(* to currentUser and returned.                                            *)
getCurrentUserOutcome(stored, readFails) ==
  IF readFails
    THEN [ok |-> TRUE, error |-> "", value |-> Null, assign |-> FALSE]
  ELSE IF IsNull(stored)
    THEN [ok |-> TRUE, error |-> "", value |-> Null, assign |-> FALSE]
  ELSE IF ~parses(stored[1])
    THEN [ok |-> TRUE, error |-> "", value |-> Null, assign |-> FALSE]
  ELSE LET parsed == JSONparse(stored[1])
       IN  [ ok |-> TRUE, error |-> "",
             value |-> IF "user" \in DOMAIN parsed
                         THEN Some(parsed.user) ELSE Null,
             assign |-> TRUE ]

(* const sessionData = await AsyncStorage.getItem(SESSION_KEY), of a call *)
(* the caller makes or of the call initializeApp makes.                    *)
(* afterRestart: the call is the one of initializeApp; afterLogouts: the   *)
(* number of logout calls, up to 2, that completed right before            *)
GetItem(p, readFails) ==
  /\ \/ free(p)
     \/ tasks[p].op = "initializeApp" /\ tasks[p].pc = "getCurrentUser"
  /\ proceeds(p, [ op |-> "getCurrentUser", pc |-> "parse",
                   sessionData |-> IF readFails THEN Null ELSE storage,
                   readFails |-> readFails,
                   afterRestart |-> tasks[p].op = "initializeApp",
                   afterLogouts |-> IF call.op /= "logout" THEN 0
                                    ELSE IF call.again THEN 2 ELSE 1,
                   ok |-> FALSE, error |-> "", value |-> Null,
                   authed |-> authedOf(call) ])
  /\ UNCHANGED <<db, storage, currentUser, screenVars>>

(* getCurrentUser after its await: the null check, JSON.parse, the        *)
(* assignment of this.currentUser and the return, or the catch             *)
GetCurrentUserParse(p) ==
  /\ tasks[p].op = "getCurrentUser" /\ tasks[p].pc = "parse"
  /\ \E out \in {getCurrentUserOutcome(tasks[p].sessionData,
                                       tasks[p].readFails)} :
       /\ currentUser' = IF out.assign THEN out.value ELSE currentUser
       /\ returns(p, [tasks[p] EXCEPT !.pc = "done", !.ok = out.ok,
                                      !.error = out.error,
                                      !.value = out.value])
  /\ UNCHANGED <<db, storage, screenVars>>

(* variant: the restart wipes AsyncStorage too *)
RestartWipesStorage ==
  /\ quiescent
  /\ currentUser' = Null
  /\ storage' = Null
  /\ tasks' = [noTasks EXCEPT ![Client] =
       [op |-> "initializeApp", pc |-> "init"]]
  /\ call' = [ op |-> "restart", ok |-> TRUE, error |-> "",
               authed |-> authedOf(call) ]
  /\ UNCHANGED <<db, screenVars>>

(* The process is closed while no call is in flight and started again:    *)
(* what is in memory is lost (AuthService is constructed anew with         *)
(* currentUser = null), the database file and AsyncStorage are kept, and   *)
(* the App component mounts and starts initializeApp.                      *)
Restart ==
  /\ quiescent
  /\ currentUser' = Null
  /\ storage' = storage
  /\ tasks' = [noTasks EXCEPT ![Client] =
       [op |-> "initializeApp", pc |-> "init"]]
  /\ call' = [ op |-> "restart", ok |-> TRUE, error |-> "",
               authed |-> authedOf(call) ]
  /\ UNCHANGED <<db, screenVars>>

(* initializeApp: await DatabaseService.init().  The tables exist, so the *)
(* CREATE TABLE IF NOT EXISTS statements leave the database as it is.      *)
AppDatabaseInit(p) ==
  /\ tasks[p].op = "initializeApp" /\ tasks[p].pc = "init"
  /\ db' = db
  /\ proceeds(p, [tasks[p] EXCEPT !.pc = "getCurrentUser"])
  /\ UNCHANGED <<storage, currentUser, screenVars>>

----------------------------------------------------------------------------
(* AuthService.changePassword, one step per await *)

(* variant: the UPDATE has no WHERE clause *)
updatePasswordHashUnscoped(d, userId, passwordHash) ==
  [d EXCEPT !.users = { [u EXCEPT !.password_hash = passwordHash] : u \in @ }]

(* UPDATE users SET password_hash = ? WHERE id = ? *)
updatePasswordHash(d, userId, passwordHash) ==
  [d EXCEPT !.users =
     { IF u.id = userId THEN [u EXCEPT !.password_hash = passwordHash] ELSE u
       : u \in @ }]

(* const user = await DatabaseService.getUserById(userId); reading the    *)
(* email of null throws a TypeError.  usersBefore: the users table when    *)
(* the call starts                                                         *)
CpGetUserById(p, userId, currentPassword, newPassword) ==
  /\ free(p)
  /\ LET r == [ op |-> "changePassword", pc |-> "getUserByEmail",
                userId |-> userId, currentPassword |-> currentPassword,
                newPassword |-> newPassword, usersBefore |-> db.users,
                user |-> getUserById(db, userId), fullUser |-> Null,
                newPasswordHash |-> <<>>,
                ok |-> FALSE, error |-> "", authed |-> Null ]
     IN  IF IsNull(r.user)
           THEN returns(p, [r EXCEPT !.pc = "done", !.error = "TypeError",
                                     !.authed = authedOf(call)])
           ELSE proceeds(p, r)
  /\ UNCHANGED <<db, storage, currentUser, screenVars>>

(* const fullUser = await DatabaseService.getUserByEmail(user.email) *)
CpGetUserByEmail(p) ==
  /\ tasks[p].op = "changePassword" /\ tasks[p].pc = "getUserByEmail"
  /\ proceeds(p, [tasks[p] EXCEPT
       !.fullUser = getUserByEmail(db, tasks[p].user[1].email),
       !.pc = "verifyPassword"])
  /\ UNCHANGED <<db, storage, currentUser, screenVars>>

(* variant: the current password is not verified *)
CpVerifyPasswordNoVerify(p) ==
  /\ tasks[p].op = "changePassword" /\ tasks[p].pc = "verifyPassword"
  /\ IF IsNull(tasks[p].fullUser)
       THEN throws(p, "TypeError")
     ELSE IF ~validatePassword(tasks[p].newPassword).isValid
       THEN throws(p, "")
     ELSE proceeds(p, [tasks[p] EXCEPT !.pc = "hashPassword"])
  /\ UNCHANGED <<db, storage, currentUser, screenVars>>

(* const isValid = await this.verifyPassword(currentPassword,             *)
(* fullUser.password_hash) on the row read before, the throw when it is    *)
(* false, and the validation of the new password                           *)
CpVerifyPassword(p) ==
  /\ tasks[p].op = "changePassword" /\ tasks[p].pc = "verifyPassword"
  /\ IF IsNull(tasks[p].fullUser)
       THEN throws(p, "TypeError")
     ELSE IF ~verifyPassword(tasks[p].currentPassword,
                             Some(tasks[p].fullUser[1].password_hash))
       THEN throws(p, "Current password is incorrect")
     ELSE IF ~validatePassword(tasks[p].newPassword).isValid
       THEN throws(p, "")
     ELSE proceeds(p, [tasks[p] EXCEPT !.pc = "hashPassword"])
  /\ UNCHANGED <<db, storage, currentUser, screenVars>>

(* const newPasswordHash = await this.hashPassword(newPassword) *)
CpHashPassword(p, randomBytes) ==
  /\ tasks[p].op = "changePassword" /\ tasks[p].pc = "hashPassword"
  /\ proceeds(p, [tasks[p] EXCEPT
       !.newPasswordHash = hashPassword(tasks[p].newPassword, randomBytes),
       !.pc = "update"])
  /\ UNCHANGED <<db, storage, currentUser, screenVars>>

(* await DatabaseService.db.runAsync('UPDATE users SET password_hash ...') *)
(* and return true                                                         *)
CpUpdate(p) ==
  /\ tasks[p].op = "changePassword" /\ tasks[p].pc = "update"
  /\ db' = updatePasswordHash(db, tasks[p].userId, tasks[p].newPasswordHash)
  /\ returns(p, [tasks[p] EXCEPT !.pc = "done", !.ok = TRUE,
                                 !.authed = authedOf(call)])
  /\ UNCHANGED <<storage, currentUser, screenVars>>

----------------------------------------------------------------------------
(* The account service used by one client that awaits every call before   *)
(* it makes the next (the submit handler of AuthScreen ignores a tap while *)
(* a call is in flight)                                                    *)

Next ==
  \/ \E email \in Emails, password \in Passwords, fullName \in FullNames :
       RegStart(Client, email, password, fullName)
  \/ RegGetUserByEmail(Client)
  \/ \E randomBytes \in RandomBytes : RegHashPassword(Client, randomBytes)
  \/ RegCreateUser(Client)
  \/ RegProfileSelect(Client)
  \/ RegProfileWrite(Client)
  \/ RegCreateActivity(Client)
  \/ RegGetUserById(Client)
  \/ RegSetItem(Client)
  \/ RegSetCurrentUser(Client)
  \/ \E email \in Emails, password \in Passwords :
       LoginGetUserByEmail(Client, email, password)
  \/ LoginVerifyPassword(Client)
  \/ LoginSetItem(Client)
  \/ LoginSetCurrentUser(Client)
  \/ LogoutRemoveItem(Client)
  \/ LogoutSetCurrentUser(Client)
  \/ GetItem(Client, FALSE)
  \/ GetCurrentUserParse(Client)

Spec == Init /\ [][Next]_vars

----------------------------------------------------------------------------
(* DatabaseService calls, one at a time, with arbitrary ids *)

customActivity ==
  [ name |-> "Morning Run", description |-> "", target_value |-> Null,
    target_unit |-> "", category |-> "exercise" ]

activityById(d, activityId) ==
  IF \E a \in d.fitness_activities : a.id = activityId
    THEN Some(CHOOSE a \in d.fitness_activities : a.id = activityId)
    ELSE Null

DbCreateActivity(userId) ==
  /\ db.sqlite_sequence.fitness_activities < MaxActivities
  /\ db' = createActivity(db, userId, customActivity).db
  /\ call' = [ op |-> "createActivity", userId |-> userId, ok |-> TRUE,
               error |-> "" ]
  /\ UNCHANGED <<storage, currentUser, screenVars, tasks>>

DbLogActivity(userId, activityId, date, completed, actualValue, notes) ==
  LET before == call
      logActivityCall ==   \* the record of the call; again: the call before was the same
        [ op |-> "logActivity", userId |-> userId, activityId |-> activityId,
          date |-> date, completed |-> completed, actualValue |-> actualValue,
          notes |-> notes, ok |-> TRUE, error |-> "",
          again |-> /\ before.op = "logActivity"
                    /\ before.userId = userId
                    /\ before.activityId = activityId
                    /\ before.date = date
                    /\ before.completed = completed
                    /\ before.actualValue = actualValue
                    /\ before.notes = notes,
          replaced |-> logActivity(db, userId, activityId, date, completed,
                                   actualValue, notes).replaced ]
  IN
  /\ db.sqlite_sequence.activity_logs < MaxLogId
  /\ db' = logActivity(db, userId, activityId, date, completed,
                       actualValue, notes).db
  /\ call' = logActivityCall
  /\ UNCHANGED <<storage, currentUser, screenVars, tasks>>

DbDeleteActivity(activityId) ==
  LET deleteActivityCall ==   \* the record of the call; target: the row before
        [ op |-> "deleteActivity", activityId |-> activityId, ok |-> TRUE,
          error |-> "", target |-> activityById(db, activityId) ]
  IN
  /\ db' = deleteActivity(db, activityId)
  /\ call' = deleteActivityCall
  /\ UNCHANGED <<storage, currentUser, screenVars, tasks>>

NextStore ==
  \/ \E userId \in UserIds : DbCreateActivity(userId)
  \/ \E userId \in UserIds, activityId \in ActivityIds, date \in Dates,
        completed \in BOOLEAN,
        extras \in { [actualValue |-> Null, notes |-> Null],
                     [actualValue |-> Some(5), notes |-> Some("note")] } :
       DbLogActivity(userId, activityId, date, completed,
                     extras.actualValue, extras.notes)
  \/ \E activityId \in ActivityIds : DbDeleteActivity(activityId)

SpecStore == Init /\ [][NextStore]_vars

----------------------------------------------------------------------------
(* register calls of two callers that overlap, with letter-case variants  *)
(* of one email, and awaited operations that reject                        *)

RegisterEmails ==
  { <<"a", "@", "b", ".", "c">>, <<"A", "@", "b", ".", "c">>, <<"a", "b">> }

registerPassword == <<"P", "w", "1">>
registerName == <<"A", "l">>
registerBytes == CHOOSE r \in RandomBytes : r[1] = 7

NextRegister ==
  \/ \E p \in Callers, email \in RegisterEmails :
       RegStart(p, email, registerPassword, registerName)
  \/ \E p \in Callers : RegGetUserByEmail(p)
  \/ \E p \in Callers : RegHashPassword(p, registerBytes)
  \/ \E p \in Callers : RegCreateUser(p)
  \/ \E p \in Callers : RegProfileSelect(p)
  \/ \E p \in Callers : RegProfileWrite(p)
  \/ \E p \in Callers : RegCreateActivity(p)
  \/ \E p \in Callers : RegGetUserById(p)
  \/ \E p \in Callers : RegSetItem(p)
  \/ \E p \in Callers : RegSetCurrentUser(p)
  \/ \E p \in Callers : RegAwaitRejects(p)

SpecRegister == Init /\ [][NextRegister]_vars

(* Two people register different accounts at the same moment, each once,   *)
(* so that the inserts of the two calls land in the tables in any order.   *)
NextRegisterPair ==
  \/ \E p \in Callers :
       /\ tasks[p].pc = "idle"
       /\ RegStart(p, IF p = Client THEN <<"A", "@", "b", ".", "c">>
                                    ELSE <<"z", "@", "b", ".", "c">>,
                   registerPassword, registerName)
  \/ \E p \in Callers : RegGetUserByEmail(p)
  \/ \E p \in Callers : RegHashPassword(p, registerBytes)
  \/ \E p \in Callers : RegCreateUser(p)
  \/ \E p \in Callers : RegProfileSelect(p)
  \/ \E p \in Callers : RegProfileWrite(p)
  \/ \E p \in Callers : RegCreateActivity(p)
  \/ \E p \in Callers : RegGetUserById(p)
  \/ \E p \in Callers : RegSetItem(p)
  \/ \E p \in Callers : RegSetCurrentUser(p)

SpecRegisterPair == Init /\ [][NextRegisterPair]_vars

----------------------------------------------------------------------------
(* The statistics query over stores built by createActivity and            *)
(* logActivity                                                             *)

GetActivityStats(userId, startDate, endDate) ==
  /\ call' = [ op |-> "getActivityStats", userId |-> userId,
               startDate |-> startDate, endDate |-> endDate,
               ok |-> TRUE, error |-> "",
               value |-> getActivityStats(db, userId, startDate, endDate) ]
  /\ UNCHANGED <<db, storage, currentUser, screenVars, tasks>>

NextStats ==
  \/ \E userId \in UserIds : DbCreateActivity(userId)
  \/ \E userId \in UserIds, activityId \in ActivityIds, date \in Dates,
        completed \in BOOLEAN :
       DbLogActivity(userId, activityId, date, completed, Null, Null)
  \/ \E userId \in UserIds, startDate \in Dates, endDate \in Dates :
       GetActivityStats(userId, startDate, endDate)

SpecStats == Init /\ [][NextStats]_vars

----------------------------------------------------------------------------
(* clearUserData over stores with rows in the five child tables.  The     *)
(* script is one execAsync call whose statements run one after the other;  *)
(* the call may end before the script does (the process is killed, or a    *)
(* statement fails and the ones after it are skipped), and what the        *)
(* statements before have deleted stays deleted.  call records the         *)
(* progress: the number of statements done, the status running / done /    *)
(* interrupted, and had, the tables that held a row of the user when the   *)
(* call started.                                                           *)

sampleProfile ==
  [ age |-> Some(30), weight |-> Null, height |-> Null, gender |-> Null,
    fitness_goal |-> Null ]

ownedRows(d, table, userId) == { r \in d[table] : r.user_id = userId }

tablesWithRows(d, userId) ==
  { clearStatements[i] : i \in { j \in 1..Len(clearStatements) :
      ownedRows(d, clearStatements[j], userId) /= {} } }

clearing == call.op = "clearUserData" /\ call.status = "running"

ClearStart(userId) ==
  /\ ~clearing
  /\ call' = [ op |-> "clearUserData", userId |-> userId, ok |-> TRUE,
               error |-> "", done |-> 0, status |-> "running",
               had |-> tablesWithRows(db, userId) ]
  /\ UNCHANGED <<db, storage, currentUser, screenVars, tasks>>

ClearStep ==
  /\ clearing
  /\ db' = execStatements(db, call.userId, call.done + 1, call.done + 1)
  /\ call' = [call EXCEPT
       !.done = @ + 1,
       !.status = IF call.done + 1 = Len(clearStatements)
                    THEN "done" ELSE "running"]
  /\ UNCHANGED <<storage, currentUser, screenVars, tasks>>

ClearInterrupt ==
  /\ clearing
  /\ call' = [call EXCEPT !.status = "interrupted", !.ok = FALSE,
                          !.error = "interrupted"]
  /\ UNCHANGED <<db, storage, currentUser, screenVars, tasks>>

(* DatabaseService.createWorkoutSession(userId, sessionData), called      *)
(* while no clearUserData script is running                                *)
DbCreateWorkoutSession(userId) ==
  LET sampleSession ==
        [ workout_type |-> "Run", duration_minutes |-> Some(30),
          calories_burned |-> Null, intensity |-> Null, notes |-> Null,
          session_date |-> Today ]
      out == createWorkoutSession(db, userId, sampleSession)
  IN
  /\ ~clearing
  /\ db.sqlite_sequence.workout_sessions < MaxInsertId
  /\ db' = out.db
  /\ call' = [ op |-> "createWorkoutSession", userId |-> userId, ok |-> TRUE,
               error |-> "", value |-> out.lastInsertRowId ]
  /\ UNCHANGED <<storage, currentUser, screenVars, tasks>>

(* DatabaseService.addBodyMeasurement(userId, measurementData), called    *)
(* while no clearUserData script is running                                *)
DbAddBodyMeasurement(userId) ==
  LET sampleMeasurement ==
        [ weight |-> Some(70), body_fat_percentage |-> Null, muscle_mass |-> Null,
          waist_circumference |-> Null, measurement_date |-> Today ]
      out == addBodyMeasurement(db, userId, sampleMeasurement)
  IN
  /\ ~clearing
  /\ db.sqlite_sequence.body_measurements < MaxInsertId
  /\ db' = out.db
  /\ call' = [ op |-> "addBodyMeasurement", userId |-> userId, ok |-> TRUE,
               error |-> "", value |-> out.lastInsertRowId ]
  /\ UNCHANGED <<storage, currentUser, screenVars, tasks>>

(* the store after the user has been given one row in each of the given   *)
(* tables, by the calls that insert them                                   *)
populate(d, userId, tables) ==
  LET d1 == IF "fitness_activities" \in tables
              THEN createActivity(d, userId, customActivity).db ELSE d
      d2 == IF "activity_logs" \in tables
              THEN logActivity(d1, userId, userId, Today, TRUE, Null, Null).db
              ELSE d1
  IN  IF "user_profiles" \in tables
        THEN createOrUpdateProfile(d2, userId, sampleProfile) ELSE d2

(* a store in which each user has an activity, a log and a profile, or    *)
(* some of them; workout sessions and body measurements are added by the   *)
(* steps of NextClear                                                      *)
InitClear ==
  /\ \E t1 \in SUBSET {"fitness_activities", "activity_logs", "user_profiles"},
        t2 \in SUBSET {"fitness_activities", "activity_logs", "user_profiles"} :
       db = populate(populate(createTables, 1, t1), 2, t2)
  /\ storage = Null
  /\ currentUser = Null
  /\ call = noCall
  /\ activities = {}
  /\ todayLogs = <<>>
  /\ toggles = <<>>
  /\ pair = Null
  /\ tasks = noTasks

NextClear ==
  \/ \E userId \in UserIds : DbCreateWorkoutSession(userId)
  \/ \E userId \in UserIds : DbAddBodyMeasurement(userId)
  \/ \E userId \in UserIds : ClearStart(userId)
  \/ ClearStep
  \/ ClearInterrupt

SpecClear == InitClear /\ [][NextClear]_vars

----------------------------------------------------------------------------
(* Sessions of two registered users across login, logout and restarts of  *)
(* the process, with one client that awaits every call                     *)

SessionPeople ==
  << [ email |-> <<"a", "@", "b", ".", "c">>, password |-> <<"P", "w", "1">>,
       fullName |-> <<"A", "l">>,
       randomBytes |-> CHOOSE r \in RandomBytes : r[1] = 7 ],
     [ email |-> <<"z", "@", "b", ".", "c">>, password |-> <<"p", ":", "1">>,
       fullName |-> <<"A", "l">>,
       randomBytes |-> CHOOSE r \in RandomBytes : r[1] = 171 ] >>

(* the state after the two people have registered, in either order *)
InitSession ==
  LET twoAccounts(one, two) ==
        LET first == registerOutcome(createTables, one.email, one.password,
                                     one.fullName, one.randomBytes)
            second == registerOutcome(first.db, two.email, two.password,
                                      two.fullName, two.randomBytes)
        IN  [first |-> first, second |-> second]
  IN
  \E i \in 1..2 :
    \E acc \in {twoAccounts(SessionPeople[i], SessionPeople[3 - i])} :
      /\ db = acc.second.db
      /\ storage = Some(JSONstringify([user |-> acc.second.user[1]]))
      /\ currentUser = Some(acc.second.user[1])
      /\ call = [ op |-> "register", email |-> SessionPeople[3 - i].email,
                  password |-> SessionPeople[3 - i].password,
                  fullName |-> SessionPeople[3 - i].fullName,
                  ok |-> TRUE, error |-> "", value |-> acc.second.user,
                  existing |-> FALSE,
                  authed |-> Some([ user |-> acc.second.user[1],
                                    replaced |-> Some(JSONstringify(
                                      [user |-> acc.first.user[1]])) ]) ]
      /\ activities = {}
      /\ todayLogs = <<>>
      /\ toggles = <<>>
      /\ pair = Null
      /\ tasks = noTasks

NextSession ==
  \/ \E email \in Emails, password \in Passwords :
       LoginGetUserByEmail(Client, email, password)
  \/ LoginVerifyPassword(Client)
  \/ LoginSetItem(Client)
  \/ LoginSetCurrentUser(Client)
  \/ LogoutRemoveItem(Client)
  \/ LogoutSetCurrentUser(Client)
  \/ GetItem(Client, FALSE)
  \/ GetCurrentUserParse(Client)
  \/ Restart
  \/ AppDatabaseInit(Client)

SpecSession == InitSession /\ [][NextSession]_vars

----------------------------------------------------------------------------
(* changePassword calls on the two accounts, each awaited before the next *)

ChangeUserIds == {1, 2, 3}

NextPassword ==
  \/ \E userId \in ChangeUserIds, currentPassword \in Passwords,
        newPassword \in Passwords :
       CpGetUserById(Client, userId, currentPassword, newPassword)
  \/ CpGetUserByEmail(Client)
  \/ CpVerifyPassword(Client)
  \/ \E randomBytes \in RandomBytes : CpHashPassword(Client, randomBytes)
  \/ CpUpdate(Client)

SpecPassword == InitSession /\ [][NextPassword]_vars

----------------------------------------------------------------------------
(* login, logout and getCurrentUser calls of two callers on the two       *)
(* accounts that overlap.  Each call awaits one AsyncStorage operation and *)
(* assigns this.currentUser when its own await resumes; nothing orders the *)
(* continuations of two calls, so they are taken in either order.          *)

NextAuth ==
  \/ \E p \in Callers, i \in DOMAIN SessionPeople :
       LoginGetUserByEmail(p, SessionPeople[i].email,
                           SessionPeople[i].password)
  \/ \E p \in Callers : LoginVerifyPassword(p)
  \/ \E p \in Callers : LoginSetItem(p)
  \/ \E p \in Callers : LoginSetCurrentUser(p)
  \/ \E p \in Callers : LogoutRemoveItem(p)
  \/ \E p \in Callers : LogoutSetCurrentUser(p)
  \/ \E p \in Callers : GetItem(p, FALSE)
  \/ \E p \in Callers : GetCurrentUserParse(p)

SpecAuth == InitSession /\ [][NextAuth]_vars

----------------------------------------------------------------------------
(* Calls with the id of an activity or a user that may not exist, on the   *)
(* store of the two accounts: activity 1 exists, activity 15 does not;     *)
(* user 3 does not.                                                        *)

ProbeActivityIds == {1, 15}

DbUpdateActivity(activityId) ==
  /\ db' = updateActivity(db, activityId, customActivity)
  /\ call' = [ op |-> "updateActivity", activityId |-> activityId,
               ok |-> TRUE, error |-> "",
               target |-> activityById(db, activityId) ]
  /\ UNCHANGED <<storage, currentUser, screenVars, tasks>>

NextProbe ==
  \/ \E userId \in UserIds, activityId \in ProbeActivityIds,
        completed \in BOOLEAN :
       DbLogActivity(userId, activityId, Today, completed, Null, Null)
  \/ \E activityId \in ProbeActivityIds : DbUpdateActivity(activityId)
  \/ \E activityId \in ProbeActivityIds : DbDeleteActivity(activityId)
  \/ \E userId \in ChangeUserIds, currentPassword \in Passwords :
       CpGetUserById(Client, userId, currentPassword, registerPassword)
  \/ CpGetUserByEmail(Client)
  \/ CpVerifyPassword(Client)
  \/ CpHashPassword(Client, registerBytes)
  \/ CpUpdate(Client)

SpecProbe == InitSession /\ [][NextProbe]_vars

----------------------------------------------------------------------------
(* The credential hasher on its own: hashPassword and verifyPassword      *)
(* applied to passwords, salts and stored values, well-formed or not       *)

HashPasswords ==
  Passwords \cup { <<"a">>, <<"P", "w">>, <<"1">> }

HashPassword(password, randomBytes) ==
  /\ call' = [ op |-> "hashPassword", password |-> password,
               randomBytes |-> randomBytes, ok |-> TRUE, error |-> "",
               value |-> Some(hashPassword(password, randomBytes)),
               authed |-> Null ]
  /\ UNCHANGED <<db, storage, currentUser, screenVars, tasks>>

(* hashedFrom: the password the stored value was made from, when the      *)
(* stored value is the result of the hashPassword call right before        *)
VerifyPassword(password, storedHash) ==
  \E out \in {verifyPasswordOutcome(password, storedHash)} :
    /\ call' = [ op |-> "verifyPassword", password |-> password,
                 storedHash |-> storedHash, ok |-> out.ok, error |-> "",
                 value |-> out.value,
                 hashedFrom |-> IF call.op = "hashPassword"
                                   /\ call.value = storedHash
                                  THEN Some(call.password) ELSE Null,
                 authed |-> Null ]
    /\ UNCHANGED <<db, storage, currentUser, screenVars, tasks>>

NextHash ==
  \/ \E password \in HashPasswords, randomBytes \in RandomBytes :
       HashPassword(password, randomBytes)
  \/ \E password \in HashPasswords,
        storedHash \in
          { Null, Some(<<>>), Some(<<"a", "b">>), Some(<<"P", "w", "1">>),
            Some(<<":">>), Some(<<"a", ":">>), Some(<<":", "a">>),
            Some(<<"a", ":", "b", ":", "c">>) }
          \cup { Some(hashPassword(p, r)) :
                   p \in HashPasswords, r \in RandomBytes } :
       VerifyPassword(password, storedHash)

SpecHash == Init /\ [][NextHash]_vars

----------------------------------------------------------------------------
(* Profile updates of the two accounts.  createOrUpdateProfile awaits a   *)
(* SELECT and then an UPDATE or an INSERT; the steps of calls that         *)
(* overlap interleave, and clearUserData may run between them.             *)

(* updateProfile: the awaited SELECT of createOrUpdateProfile *)
ProfSelect(p, userId, profileData) ==
  /\ tasks[p].pc = "idle"
  /\ proceeds(p,
       [ op |-> "updateProfile", pc |-> "write", userId |-> userId,
         profileData |-> profileData,
         existing |-> profileExists(db, userId),
         ok |-> FALSE, error |-> "" ])
  /\ UNCHANGED <<db, storage, currentUser, screenVars>>

(* updateProfile: the awaited UPDATE or INSERT of createOrUpdateProfile *)
ProfWrite(p) ==
  /\ tasks[p].op = "updateProfile" /\ tasks[p].pc = "write"
  /\ \E out \in {profileWrite(db, tasks[p].userId, tasks[p].profileData,
                              tasks[p].existing)} :
       /\ out.db.sqlite_sequence.user_profiles <= MaxProfileId
       /\ db' = out.db
       /\ tasks' = [tasks EXCEPT ![p].pc = "done", ![p].ok = out.ok,
                                 ![p].error = out.error]
  /\ UNCHANGED <<storage, currentUser, call, screenVars>>

(* clearUserData run to its end *)
DbClearUserData(userId) ==
  /\ db' = execStatements(db, userId, 1, Len(clearStatements))
  /\ call' = [ op |-> "clearUserData", userId |-> userId, ok |-> TRUE,
               error |-> "", done |-> Len(clearStatements),
               status |-> "done", had |-> tablesWithRows(db, userId) ]
  /\ UNCHANGED <<storage, currentUser, screenVars, tasks>>

NextProfile ==
  \/ \E p \in Callers, userId \in UserIds,
        profileData \in
          { sampleProfile,
            [ age |-> Some(31), weight |-> Some(70), height |-> Null,
              gender |-> Null, fitness_goal |-> Null ] } :
       ProfSelect(p, userId, profileData)
  \/ \E p \in Callers : ProfWrite(p)
  \/ \E userId \in UserIds : DbClearUserData(userId)

SpecProfile == InitSession /\ [][NextProfile]_vars

(* Faults of the session storage: the entry is overwritten by a text that *)
(* is not a serialized session, or the read is rejected.                   *)

CorruptStorage(text) ==
  /\ storage' = Some(text)
  /\ call' = [op |-> "corruptStorage", ok |-> TRUE, error |-> "", authed |-> Null]
  /\ UNCHANGED <<db, currentUser, screenVars, tasks>>

NextSessionFaults ==
  \/ NextSession
  \/ \E text \in { [raw |-> "{\"user\":"], [json |-> [timestamp |-> 0]] } :
       CorruptStorage(text)
  \/ GetItem(Client, TRUE)

SpecSessionFaults == InitSession /\ [][NextSessionFaults]_vars

----------------------------------------------------------------------------
(* FitnessTrackerScreen.jsx, mounted for the user who just registered.     *)
(* Every handler is a call of its own whose awaits are separate steps:     *)
(* loadData awaits the read of the activities, sets the activities state,  *)
(* awaits the read of today's logs and sets the todayLogs state;           *)
(* toggleActivity reads todayLogs, awaits the write and updates todayLogs  *)
(* in its continuation; saveActivity and the Delete button await one write *)
(* and then run loadData.  Steps of handlers that overlap interleave.      *)

(* the logsMap loadData builds from the rows of getActivityLogsForDate *)
logsMap(logs) ==
  [ a \in { j.log.activity_id : j \in logs } |->
      LET j == CHOOSE j \in logs : j.log.activity_id = a
      IN  [ completed |-> j.log.completed = 1,
            actual_value |-> j.log.actual_value,
            notes |-> j.log.notes ] ]

(* a loadData run at its first await *)
loadDataTask ==
  [ op |-> "loadData", pc |-> "getActivitiesByUser", userActivities |-> {},
    logs |-> {} ]

(* the screen has mounted: the state hooks hold their initial values and  *)
(* the effect has called loadData, which is at its first await             *)
InitScreen ==
  \E email \in {SessionPeople[1].email}, password \in {registerPassword},
     fullName \in {registerName}, randomBytes \in {registerBytes} :
    \E out \in {registerOutcome(createTables, email, password, fullName, randomBytes)} :
      /\ out.ok
      /\ db = out.db
      /\ storage = Some(JSONstringify([user |-> out.user[1]]))
      /\ currentUser = Some(out.user[1])
      /\ call = [ op |-> "register", email |-> email, password |-> password,
                  fullName |-> fullName, ok |-> TRUE, error |-> "",
                  value |-> out.user, existing |-> FALSE,
                  authed |-> Some([user |-> out.user[1], replaced |-> Null]) ]
      /\ activities = {}
      /\ todayLogs = <<>>
      /\ toggles = <<>>
      /\ pair = Null
      /\ tasks = [noTasks EXCEPT ![Client] = loadDataTask]

(* loadData: await DatabaseService.getActivitiesByUser(user.id), of the   *)
(* run onRefresh starts or of the run a handler or the mount effect has    *)
(* started                                                                 *)
LoadGetActivitiesByUser(p) ==
  /\ free(p) \/ tasks[p].pc = "getActivitiesByUser"
  /\ tasks' = [tasks EXCEPT ![p] =
       [ (IF free(p) THEN loadDataTask ELSE tasks[p]) EXCEPT
           !.userActivities = getActivitiesByUser(db, currentUser[1].id),
           !.pc = "setActivities" ]]
  /\ UNCHANGED <<db, storage, currentUser, call, screenVars>>

(* loadData after its first await: setActivities(userActivities) *)
LoadSetActivities(p) ==
  /\ tasks[p].pc = "setActivities"
  /\ activities' = tasks[p].userActivities
  /\ tasks' = [tasks EXCEPT ![p].pc = "getActivityLogsForDate"]
  /\ UNCHANGED <<db, storage, currentUser, call, todayLogs, toggles, pair>>

(* loadData: await DatabaseService.getActivityLogsForDate(user.id, today) *)
LoadGetActivityLogsForDate(p) ==
  /\ tasks[p].pc = "getActivityLogsForDate"
  /\ tasks' = [tasks EXCEPT
       ![p].logs = getActivityLogsForDate(db, currentUser[1].id, Today),
       ![p].pc = "setTodayLogs"]
  /\ UNCHANGED <<db, storage, currentUser, call, screenVars>>

(* loadData after its second await: setTodayLogs(logsMap) *)
LoadSetTodayLogs(p) ==
  /\ tasks[p].pc = "setTodayLogs"
  /\ todayLogs' = logsMap(tasks[p].logs)
  /\ tasks' = [tasks EXCEPT ![p] = noTasks[p]]
  /\ UNCHANGED <<db, storage, currentUser, call, activities, toggles, pair>>

(* toggleActivity up to its await: the handler reads todayLogs and issues *)
(* the write                                                               *)
ToggleStart(activityId) ==
  LET completedToday ==   \* the store holds a completed log of the activity for today
        \E l \in db.activity_logs :
          l.activity_id = activityId /\ l.log_date = Today /\ l.completed = 1
  IN
  /\ Len(toggles) < MaxInFlight
  /\ \E a \in activities : a.id = activityId
  /\ LET newCompleted ==
           ~(activityId \in DOMAIN todayLogs /\ todayLogs[activityId].completed)
     IN  toggles' = Append(toggles,
           [ activityId |-> activityId, date |-> Today,
             newCompleted |-> newCompleted, written |-> FALSE ])
  /\ pair' =
       IF Len(toggles) = 0
         THEN Some([ activityId |-> activityId,
                     before |-> completedToday,
                     started |-> 1, finished |-> 0 ])
       ELSE IF /\ pair[1].activityId = activityId
               /\ \E i \in 1..Len(toggles) : toggles[i].activityId = activityId
         THEN Some([pair[1] EXCEPT !.started = @ + 1])
       ELSE pair
  /\ UNCHANGED <<db, storage, currentUser, call, activities, todayLogs, tasks>>

(* toggleActivity: the awaited DatabaseService.logActivity of a run; the *)
(* writes of runs that overlap execute in any order                        *)
ToggleWrite ==
  \E i \in 1..Len(toggles) :
    /\ ~toggles[i].written
    /\ db.sqlite_sequence.activity_logs < MaxLogId
    /\ db' = logActivity(db, currentUser[1].id, toggles[i].activityId,
                         toggles[i].date, toggles[i].newCompleted,
                         Null, Null).db
    /\ toggles' = [toggles EXCEPT ![i].written = TRUE]
    /\ UNCHANGED <<storage, currentUser, call, activities, todayLogs, pair,
                   tasks>>

(* toggleActivity after its await: setTodayLogs(prev => ...) on the       *)
(* todayLogs of that moment; the continuations of runs that overlap run    *)
(* in any order                                                            *)
ToggleFinish ==
  \E i \in 1..Len(toggles) :
    /\ toggles[i].written
    /\ LET activityId == toggles[i].activityId
           newCompleted == toggles[i].newCompleted
       IN  /\ todayLogs' =
                 [ a \in DOMAIN todayLogs \cup {activityId} |->
                     IF a /= activityId THEN todayLogs[a]
                     ELSE IF activityId \in DOMAIN todayLogs
                       THEN [todayLogs[a] EXCEPT !.completed = newCompleted]
                       ELSE [completed |-> newCompleted] ]
           /\ pair' = IF pair[1].activityId = activityId
                        THEN Some([pair[1] EXCEPT !.finished = @ + 1])
                        ELSE pair
    /\ toggles' = [ j \in 1..(Len(toggles) - 1) |->
                      IF j < i THEN toggles[j] ELSE toggles[j + 1] ]
    /\ UNCHANGED <<db, storage, currentUser, call, activities, tasks>>

(* the activity whose card the user taps, edits and deletes *)
ScreenActivityIds == {1}

(* saveActivity with a name entered: the awaited updateActivity of the    *)
(* activity being edited, or createActivity when none is (the user adds    *)
(* an activity under a name no stored activity has); loadData is called    *)
(* when the await resumes                                                  *)
SaveActivityWrite(p, editingActivity) ==
  /\ free(p)
  /\ IF IsNull(editingActivity)
       THEN /\ \A a \in db.fitness_activities : a.name /= customActivity.name
            /\ db' = createActivity(db, currentUser[1].id, customActivity).db
       ELSE /\ \E a \in activities : a.id = editingActivity[1]
            /\ db' = updateActivity(db, editingActivity[1], customActivity)
  /\ tasks' = [tasks EXCEPT ![p] = loadDataTask]
  /\ UNCHANGED <<storage, currentUser, call, screenVars>>

(* the Delete button of the confirmation alert: the awaited               *)
(* DatabaseService.deleteActivity; loadData is called when the await       *)
(* resumes                                                                 *)
DeleteActivityWrite(p, activityId) ==
  /\ free(p)
  /\ \E a \in activities : a.id = activityId
  /\ db' = deleteActivity(db, activityId)
  /\ tasks' = [tasks EXCEPT ![p] = loadDataTask]
  /\ UNCHANGED <<storage, currentUser, call, screenVars>>

(* The run of loadData that the mount effect or onRefresh started is the  *)
(* task of Client; the run that a saveActivity or delete handler started   *)
(* is the task of the other caller; the two overlap.  The edit form is     *)
(* open for a new activity (null) or for the activity of the card.         *)
NextScreen ==
  \/ LoadGetActivitiesByUser(Client)
  \/ \E p \in Callers \ {Client} : tasks[p].pc = "getActivitiesByUser"
                                    /\ LoadGetActivitiesByUser(p)
  \/ \E p \in Callers : LoadSetActivities(p)
  \/ \E p \in Callers : LoadGetActivityLogsForDate(p)
  \/ \E p \in Callers : LoadSetTodayLogs(p)
  \/ \E activityId \in ScreenActivityIds : ToggleStart(activityId)
  \/ ToggleWrite
  \/ ToggleFinish
  \/ \E p \in Callers \ {Client},
        editingActivity \in {Null} \cup { Some(a) : a \in ScreenActivityIds } :
       SaveActivityWrite(p, editingActivity)
  \/ \E p \in Callers \ {Client}, activityId \in ScreenActivityIds :
       DeleteActivityWrite(p, activityId)

SpecScreen == InitScreen /\ [][NextScreen]_vars

----------------------------------------------------------------------------
(* Properties of the account service, checked under Spec *)

(* the call that completed last is the latest call of its caller: that    *)
(* caller has not made another call since it returned                      *)
justReturned == \E p \in Callers : tasks[p] = call

(* the passwords whose salted digest is the stored credential of user u *)
passwordsOf(u) ==
  { p \in Passwords :
      \E randomBytes \in RandomBytes :
        u.password_hash = hashPassword(p, randomBytes) }

(* C1: a login that directly follows a successful register with the same   *)
(* email and password succeeds and returns the user id register returned.  *)
RegisterThenLogin ==
  (justReturned /\ call.op = "login" /\ ~IsNull(call.justRegistered))
    => /\ call.ok
       /\ ~IsNull(call.value)
       /\ call.value[1].id = call.justRegistered[1]

RegisterThenLoginWitness ==
  /\ justReturned
  /\ call.op = "login"
  /\ ~IsNull(call.justRegistered)
  /\ call.ok
  /\ call.email /= toLowerCase(call.email)
  /\ call.value[1].id = 2

(* C2: login of a registered user with a password other than the stored    *)
(* one fails with the invalid-credentials error and returns no user; a     *)
(* login that returns a user verified the password against salt:digest.    *)
WrongPasswordRejected ==
  (justReturned /\ call.op = "login") =>
    LET user == getUserByEmail(db, toLowerCase(call.email))
    IN  /\ (~IsNull(user) /\ call.password \notin passwordsOf(user[1]))
             => /\ ~call.ok
                /\ call.error = wrongPasswordError
                /\ IsNull(call.value)
        /\ call.ok
             => /\ ~IsNull(user)
                /\ verifyPassword(call.password, Some(user[1].password_hash))
                /\ call.value[1].id = user[1].id

WrongPasswordRejectedWitness ==
  /\ justReturned
  /\ call.op = "login"
  /\ ~call.ok
  /\ LET user == getUserByEmail(db, toLowerCase(call.email))
     IN  /\ ~IsNull(user)
         /\ call.password \notin passwordsOf(user[1])
         /\ passwordsOf(user[1]) /= {}

(* C3: a failed login shows the caller the same outcome as every other     *)
(* login that would fail in the same state, whether the email is unknown   *)
(* or the password is wrong.                                               *)
LoginFailuresIdentical ==
  (justReturned /\ call.op = "login" /\ ~call.ok) =>
    \A email \in Emails, password \in Passwords :
      LET other == loginOutcome(db, email, password)
      IN  ~other.ok => /\ other.error = call.error
                       /\ other.user = call.value

LoginFailuresIdenticalWitness ==
  /\ justReturned
  /\ call.op = "login"
  /\ ~call.ok
  /\ IsNull(getUserByEmail(db, toLowerCase(call.email)))
  /\ \E email \in Emails, password \in Passwords :
       /\ ~IsNull(getUserByEmail(db, toLowerCase(email)))
       /\ ~loginOutcome(db, email, password).ok

(* C4: every login run computes exactly one digest, also when no user has  *)
(* the email.                                                              *)
LoginAlwaysOneDigest ==
  call.op = "login" => call.digests = 1

----------------------------------------------------------------------------
(* Properties of the relational store, checked under SpecStore *)

logsFor(d, activityId, date) ==
  { l \in d.activity_logs : l.activity_id = activityId /\ l.log_date = date }

(* C5: activity_logs holds at most one row per (activity_id, log_date). *)
OneLogPerActivityDay ==
  \A l1 \in db.activity_logs, l2 \in db.activity_logs :
    (l1.activity_id = l2.activity_id /\ l1.log_date = l2.log_date) => l1 = l2

OneLogPerActivityDayWitness ==
  /\ call.op = "logActivity"
  /\ call.replaced /= {}
  /\ Cardinality(db.activity_logs) = 1
  /\ db.sqlite_sequence.activity_logs = 2

(* C6: logActivity(u, a, d, true) called a second time with the same       *)
(* arguments leaves exactly one row for (a, d), completed, holding what    *)
(* the first call wrote.                                                   *)
LogTwiceIdempotent ==
  (call.op = "logActivity" /\ call.again /\ call.completed) =>
    /\ call.ok
    /\ Cardinality(logsFor(db, call.activityId, call.date)) = 1
    /\ \A l \in logsFor(db, call.activityId, call.date) :
         /\ l.completed = 1
         /\ l.user_id = call.userId
         /\ l.actual_value = call.actualValue
         /\ l.notes = call.notes

LogTwiceIdempotentWitness ==
  /\ call.op = "logActivity"
  /\ call.again
  /\ call.completed
  /\ Cardinality(call.replaced) = 1
  /\ Cardinality(logsFor(db, call.activityId, call.date)) = 1

(* C7: after logActivity there is exactly one row for its (activity,       *)
(* date), and the row's completed flag is the one of that last call.       *)
LastLogWins ==
  call.op = "logActivity" =>
    /\ Cardinality(logsFor(db, call.activityId, call.date)) = 1
    /\ \A l \in logsFor(db, call.activityId, call.date) :
         l.completed = (IF call.completed THEN 1 ELSE 0)

LastLogWinsWitness ==
  /\ call.op = "logActivity"
  /\ ~call.completed
  /\ \E r \in call.replaced : r.completed = 1 /\ r.user_id = call.userId
  /\ \A l \in logsFor(db, call.activityId, call.date) : l.completed = 0

(* C9: after deleteActivity(a) on an existing active activity, a has       *)
(* is_active = 0 and getActivitiesByUser of its owner no longer has it.    *)
DeleteDeactivates ==
  ( /\ call.op = "deleteActivity"
    /\ call.ok
    /\ ~IsNull(call.target)
    /\ call.target[1].is_active = 1 )
    => /\ activityById(db, call.activityId)[1].is_active = 0
       /\ \A a \in getActivitiesByUser(db, call.target[1].user_id) :
            a.id /= call.activityId

(* C10: deleteActivity(a) removes no fitness_activities row, leaves every  *)
(* activity other than a as it was, and leaves activity_logs as it was.    *)
DeleteFrame ==
  [][ call'.op = "deleteActivity" =>
        /\ \A r \in db.fitness_activities :
             \E r2 \in db'.fitness_activities : r2.id = r.id
        /\ \A r \in db.fitness_activities :
             r.id /= call'.activityId => r \in db'.fitness_activities
        /\ db'.activity_logs = db.activity_logs ]_vars

DeleteFrameWitness ==
  /\ call.op = "deleteActivity"
  /\ ~IsNull(call.target)
  /\ \E r \in db.fitness_activities :
       r.id /= call.activityId /\ r.is_active = 1
  /\ db.activity_logs /= {}

----------------------------------------------------------------------------
(* Properties of the screen, checked under SpecScreen *)

(* C8: when a second toggle of an activity starts while the first is in    *)
(* flight, then after both have finished there is one row for (activity,   *)
(* today) and its completed flag is what it was before the two toggles.    *)
TogglePairCancels ==
  ( /\ ~IsNull(pair)
    /\ pair[1].started = 2
    /\ pair[1].finished = 2 )
    => /\ Cardinality(logsFor(db, pair[1].activityId, Today)) = 1
       /\ \A l \in logsFor(db, pair[1].activityId, Today) :
            (l.completed = 1) = pair[1].before

----------------------------------------------------------------------------
(* Properties of the statistics query, checked under SpecStats *)

(* the logs of an activity dated in [startDate, endDate] *)
logsInRange(d, activityId, startDate, endDate) ==
  { l \in d.activity_logs :
      /\ l.activity_id = activityId
      /\ l.log_date >= startDate
      /\ l.log_date <= endDate }

(* the active activities of the user of the last getActivityStats call    *)
(* that have no log in the range of that call                              *)
unloggedInCall ==
  { fa \in db.fitness_activities :
      /\ fa.user_id = call.userId
      /\ fa.is_active = 1
      /\ logsInRange(db, fa.id, call.startDate, call.endDate) = {} }

(* C11: getActivityStats returns, for every active activity of the user   *)
(* without a log in the range, a row whose completion_rate is the number 0 *)
(* (not NULL).                                                             *)
StatsRateZeroWithoutLogs ==
  call.op = "getActivityStats" =>
    \A fa \in unloggedInCall :
      \E row \in call.value :
        /\ row.id = fa.id
        /\ ~IsNull(row.completion_rate)
        /\ row.completion_rate[1].num = 0

(* a stats call over a range in which an activity of the user has no log, *)
(* while the activity has a log outside the range                          *)
StatsRateZeroWithoutLogsWitness ==
  /\ call.op = "getActivityStats"
  /\ \E fa \in unloggedInCall :
       \E l \in db.activity_logs : l.activity_id = fa.id

(* C12: total_count of every row getActivityStats returns is the number   *)
(* of logs of that activity dated in the range, 0 when there is none.      *)
StatsTotalCountIsLogCount ==
  call.op = "getActivityStats" =>
    \A row \in call.value :
      row.total_count =
        Cardinality(logsInRange(db, row.id, call.startDate, call.endDate))

----------------------------------------------------------------------------
(* Properties of clearUserData, checked under SpecClear *)

(* C13: a clearUserData(u) call deletes no row of another user in any of  *)
(* the five child tables, and when it has run to its end no row of u is    *)
(* left in any of them.                                                    *)
ClearRemovesOwnRowsOnly ==
  [][ call'.op = "clearUserData" =>
        /\ \A i \in 1..Len(clearStatements) :
             LET t == clearStatements[i]
             IN  /\ db'[t] \ ownedRows(db', t, call'.userId)
                      = db[t] \ ownedRows(db, t, call'.userId)
                 /\ call'.status = "done" =>
                      ownedRows(db', t, call'.userId) = {}
        /\ db'.users = db.users ]_vars

(* a clearUserData call has completed for a user who had rows in all five *)
(* tables, and rows of the other user are in the store                     *)
ClearRemovesOwnRowsOnlyWitness ==
  /\ call.op = "clearUserData"
  /\ call.status = "done"
  /\ Cardinality(call.had) = Len(clearStatements)
  /\ \E i \in 1..Len(clearStatements) : db[clearStatements[i]] /= {}

(* C14: a clearUserData(u) call that has ended, by completion or by       *)
(* interruption, has emptied either all of the child tables in which u     *)
(* had rows or none of them.                                               *)
ClearAllOrNothing ==
  (call.op = "clearUserData" /\ call.status /= "running") =>
    LET emptied == { t \in call.had : ownedRows(db, t, call.userId) = {} }
    IN  emptied = {} \/ emptied = call.had

----------------------------------------------------------------------------
(* Properties of register, sessions and password rules, checked under Spec *)

(* the checks of register that come before the lookup of the email *)
validName(fullName) == Len(fullName) > 0 /\ Len(trim(fullName)) >= 2

(* C15, as stated: a register call with an email whose lower-cased form   *)
(* is already stored when it starts fails with the duplicate-email error   *)
(* and no step of it changes a table.                                      *)
DuplicateEmailRejected ==
  [][ \A p \in Callers :
        (tasks'[p].op = "register" /\ tasks'[p].existing) =>
          /\ db' = db
          /\ tasks'[p].pc = "done" =>
               /\ ~tasks'[p].ok
               /\ tasks'[p].error = "Email already registered" ]_vars

(* C15, amended: a register call with an email whose lower-cased form is  *)
(* already stored fails and changes no table; the error is the             *)
(* duplicate-email error when the full name passes its validation, and     *)
(* the full-name validation error when it does not.                        *)
DuplicateEmailRejectedAfterValidation ==
  [][ \A p \in Callers :
        (tasks'[p].op = "register" /\ tasks'[p].existing) =>
          /\ db' = db
          /\ tasks'[p].pc = "done" =>
               /\ ~tasks'[p].ok
               /\ tasks'[p].error =
                    IF validName(tasks'[p].fullName)
                      THEN "Email already registered"
                      ELSE "Full name must be at least 2 characters" ]_vars

(* a register call with another letter case of a stored email and a valid *)
(* name was rejected as a duplicate                                        *)
DuplicateEmailRejectedWitness ==
  /\ call.op = "register"
  /\ call.existing
  /\ validName(call.fullName)
  /\ call.email /= toLowerCase(call.email)
  /\ call.error = "Email already registered"

(* C17: after a register call that succeeded, the users table holds       *)
(* exactly one row with the lower-cased email, that user has exactly one   *)
(* profile whose fields are all null and exactly 7 activities, all active  *)
(* and named as the default catalog, and the call returned the user's id,  *)
(* email and full name and nothing else.                                   *)
RegisterCreatesAccount ==
  (justReturned /\ call.op = "register" /\ call.ok) =>
    LET user == call.value[1]
        rows == { u \in db.users : u.email = toLowerCase(call.email) }
        profiles == { p \in db.user_profiles : p.user_id = user.id }
        owned == { a \in db.fitness_activities : a.user_id = user.id }
    IN  /\ Cardinality(rows) = 1
        /\ \A u \in rows :
             /\ u.id = user.id
             /\ user = [ id |-> u.id, email |-> u.email,
                         full_name |-> u.full_name ]
        /\ Cardinality(profiles) = 1
        /\ \A p \in profiles :
             /\ IsNull(p.age) /\ IsNull(p.weight) /\ IsNull(p.height)
             /\ IsNull(p.gender) /\ IsNull(p.fitness_goal)
        /\ Cardinality(owned) = 7
        /\ \A a \in owned : a.is_active = 1
        /\ { a.name : a \in owned } =
             { defaultActivities[i].name : i \in 1..Len(defaultActivities) }

(* a register call with an upper-case letter in the email succeeded while *)
(* another register call was creating another account, and the default     *)
(* activities of the two accounts took alternating ids                     *)
RegisterCreatesAccountWitness ==
  /\ justReturned
  /\ call.op = "register"
  /\ call.ok
  /\ call.email /= toLowerCase(call.email)
  /\ Cardinality(db.users) = 2
  /\ { a.id : a \in { x \in db.fitness_activities :
                         x.user_id = call.value[1].id } }
       = { 1, 3, 5, 7, 9, 11, 13 }

(* C18: a getCurrentUser call made after a register or login succeeded,   *)
(* with no logout since, returns the user of the last register or login    *)
(* that succeeded, and currentUser is that user.                           *)
SessionFollowsAuthentication ==
  (justReturned /\ call.op = "getCurrentUser" /\ ~IsNull(call.authed)) =>
    /\ call.value = Some(call.authed[1].user)
    /\ currentUser = Some(call.authed[1].user)

(* getCurrentUser returned the user whose login or register replaced the  *)
(* stored session of another user                                          *)
SessionFollowsAuthenticationWitness ==
  /\ justReturned
  /\ call.op = "getCurrentUser"
  /\ ~IsNull(call.authed)
  /\ ~IsNull(call.authed[1].replaced)
  /\ JSONparse(call.authed[1].replaced[1]).user.id /= call.authed[1].user.id
  /\ call.value = Some(call.authed[1].user)

(* the documented password requirements are not met *)
weakPassword(password) ==
  LET IsDigit(c) == c \in {"0", "1", "2", "3", "4", "5", "6", "7", "8", "9"}
  IN
  LET IsLowerCase(c) == c \in {"a", "b", "c", "d", "e", "f", "l", "p", "w", "z"}
  IN
  LET IsUpperCase(c) == c \in {"A", "P", "Z"}
  IN
  \/ Len(password) < MinPasswordLength
  \/ ~\E i \in 1..Len(password) : IsUpperCase(password[i])
  \/ ~\E i \in 1..Len(password) : IsLowerCase(password[i])
  \/ ~\E i \in 1..Len(password) : IsDigit(password[i])

(* C19: a register call with a password shorter than 8 characters, or     *)
(* without an upper-case letter, a lower-case letter or a digit, fails.    *)
WeakPasswordRejected ==
  (call.op = "register" /\ weakPassword(call.password)) => ~call.ok

(* C20: the stored session, currentUser and the record returned by        *)
(* register, login and getCurrentUser have no password_hash field.         *)
NoPasswordHashInSession ==
  /\ ~IsNull(storage) =>
       "password_hash" \notin DOMAIN JSONparse(storage[1]).user
  /\ ~IsNull(currentUser) => "password_hash" \notin DOMAIN currentUser[1]
  /\ (call.op \in {"register", "login", "getCurrentUser"}
        /\ ~IsNull(call.value)) =>
       "password_hash" \notin DOMAIN call.value[1]

(* a login succeeded for a stored user, whose row holds a password hash,  *)
(* and the session of that user is stored                                  *)
NoPasswordHashInSessionWitness ==
  /\ justReturned
  /\ call.op = "login"
  /\ call.ok
  /\ ~IsNull(storage)
  /\ currentUser = call.value
  /\ \E u \in db.users : u.id = call.value[1].id /\ Len(u.password_hash) > 0

----------------------------------------------------------------------------
(* Properties of overlapping register calls, checked under SpecRegister *)

(* C16: whatever the interleaving of the register calls, no two rows of   *)
(* users have the same lower-cased email, and of the calls made with the   *)
(* same lower-cased email at most one succeeds.                            *)
OneUserPerEmail ==
  /\ \A u1 \in db.users, u2 \in db.users :
       toLowerCase(u1.email) = toLowerCase(u2.email) => u1 = u2
  /\ \A p \in Callers, q \in Callers :
       ( /\ tasks[p].op = "register" /\ tasks[p].pc = "done" /\ tasks[p].ok
         /\ tasks[q].op = "register" /\ tasks[q].pc = "done" /\ tasks[q].ok
         /\ toLowerCase(tasks[p].email) = toLowerCase(tasks[q].email) )
       => p = q

(* two calls with letter-case variants of one email both passed the       *)
(* existence check: one has succeeded, the other was stopped by the        *)
(* UNIQUE constraint of the INSERT                                         *)
OneUserPerEmailWitness ==
  \E p \in Callers, q \in Callers :
    /\ tasks[p].pc = "done" /\ tasks[p].ok
    /\ tasks[q].pc = "done" /\ ~tasks[q].ok
    /\ tasks[q].error = "UNIQUE constraint failed: users.email"
    /\ tasks[p].email /= tasks[q].email
    /\ toLowerCase(tasks[p].email) = toLowerCase(tasks[q].email)

----------------------------------------------------------------------------
(* Properties of sessions, checked under SpecSession and SpecSessionFaults *)

(* C21: a logout call never fails and leaves no stored session and no     *)
(* current user, also when no session existed; a getCurrentUser call       *)
(* that follows one or two logout calls returns null.                      *)
LogoutClearsSession ==
  /\ (justReturned /\ call.op = "logout") =>
       call.ok /\ IsNull(storage) /\ IsNull(currentUser)
  /\ (justReturned /\ call.op = "getCurrentUser" /\ call.afterLogouts > 0) =>
       call.ok /\ IsNull(call.value) /\ IsNull(currentUser)

(* getCurrentUser returned null after two logout calls in a row *)
LogoutClearsSessionWitness ==
  /\ justReturned
  /\ call.op = "getCurrentUser"
  /\ call.afterLogouts = 2
  /\ IsNull(call.value)

(* C22: a getCurrentUser call never fails, and it returns null when no    *)
(* entry is stored, when the stored text cannot be parsed and when the     *)
(* read of the storage is rejected.                                        *)
GetCurrentUserNeverRaises ==
  call.op = "getCurrentUser" =>
    /\ call.ok
    /\ ( \/ call.readFails
         \/ IsNull(call.sessionData)
         \/ ~parses(call.sessionData[1]) ) => IsNull(call.value)

(* getCurrentUser returned null over a stored text that does not parse,   *)
(* while a user was held in currentUser                                    *)
GetCurrentUserNeverRaisesWitness ==
  /\ justReturned
  /\ call.op = "getCurrentUser"
  /\ ~call.readFails
  /\ ~IsNull(call.sessionData)
  /\ ~parses(call.sessionData[1])
  /\ IsNull(call.value)
  /\ ~IsNull(currentUser)

(* C23: the getCurrentUser call that follows a restart returns the user   *)
(* of the last register or login that succeeded when no logout came        *)
(* after it, and null when a logout did.                                   *)
SessionSurvivesRestart ==
  (justReturned /\ call.op = "getCurrentUser" /\ call.afterRestart) =>
    /\ call.value = IF IsNull(call.authed) THEN Null
                    ELSE Some(call.authed[1].user)
    /\ currentUser = call.value

(* after a login of the user who registered first and a restart,          *)
(* getCurrentUser returned that user                                       *)
SessionSurvivesRestartWitness ==
  /\ justReturned
  /\ call.op = "getCurrentUser"
  /\ call.afterRestart
  /\ ~IsNull(call.authed)
  /\ call.authed[1].user.id = 1
  /\ call.value = Some(call.authed[1].user)

----------------------------------------------------------------------------
(* Properties of changePassword, checked under SpecPassword *)

(* the passwords that log the user with this row in on database d *)
loginsOf(d, u) == { p \in Passwords : loginOutcome(d, u.email, p).ok }

(* C24: a changePassword call whose current password is not the one the   *)
(* user's stored credential was made from fails with the error of a wrong  *)
(* current password and leaves the users table as it was: every password   *)
(* logs the user in exactly when it did before, so the old one does and    *)
(* the new one does not unless it is the old one.                          *)
WrongCurrentPasswordRejected ==
  LET changedUser == { u \in call.usersBefore : u.id = call.userId }
  IN
  (justReturned /\ call.op = "changePassword") =>
    \A u \in changedUser :
      call.currentPassword \notin passwordsOf(u) =>
        /\ ~call.ok
        /\ call.error = "Current password is incorrect"
        /\ db.users = call.usersBefore
        /\ passwordsOf(u) \subseteq loginsOf(db, u)
        /\ call.newPassword \notin passwordsOf(u) =>
             call.newPassword \notin loginsOf(db, u)

(* a changePassword call of a stored user was rejected for its current    *)
(* password, and the new password it asked for does not log the user in    *)
WrongCurrentPasswordRejectedWitness ==
  /\ justReturned
  /\ call.op = "changePassword"
  /\ ~call.ok
  /\ call.error = "Current password is incorrect"
  /\ \E u \in db.users :
       /\ u.id = call.userId
       /\ call.newPassword \notin loginsOf(db, u)

(* C25: after a changePassword call that succeeded with a new password    *)
(* different from the current one, login with the user's email and the     *)
(* new password succeeds, login with the old password fails, and the row   *)
(* of every other user is as before.                                       *)
PasswordChanged ==
  LET changedUser == { u \in call.usersBefore : u.id = call.userId }
  IN
  ( /\ justReturned
    /\ call.op = "changePassword"
    /\ call.ok
    /\ call.newPassword /= call.currentPassword ) =>
    \A u \in changedUser :
      /\ loginOutcome(db, u.email, call.newPassword).ok
      /\ ~loginOutcome(db, u.email, call.currentPassword).ok
      /\ { v \in db.users : v.id /= u.id }
           = { v \in call.usersBefore : v.id /= u.id }
      /\ Cardinality(db.users) = Cardinality(call.usersBefore)

(* a changePassword call succeeded with a new password other than the     *)
(* current one                                                             *)
PasswordChangedWitness ==
  /\ justReturned
  /\ call.op = "changePassword"
  /\ call.ok
  /\ call.newPassword /= call.currentPassword
  /\ \E u \in db.users :
       u.id = call.userId /\ call.newPassword \in passwordsOf(u)

----------------------------------------------------------------------------
(* Properties of the credential hasher, checked under SpecHash *)

(* C26: verifyPassword returns false, and does not throw, for a stored    *)
(* value that is null, empty or without the ':' delimiter.                 *)
VerifyRejectsMalformed ==
  LET malformed(storedHash) ==
        \/ IsNull(storedHash)
        \/ \A i \in 1..Len(storedHash[1]) : storedHash[1][i] /= ":"
  IN
  (call.op = "verifyPassword" /\ malformed(call.storedHash)) =>
    call.ok /\ ~call.value

(* verifyPassword returned false for a null stored value *)
VerifyRejectsMalformedWitness ==
  /\ call.op = "verifyPassword"
  /\ IsNull(call.storedHash)
  /\ call.ok
  /\ ~call.value

(* C27: verifyPassword of a password against the result of hashPassword   *)
(* is true exactly when it is the password that was hashed; the result of  *)
(* hashPassword is the salt, ':' and the digest of password + salt, and it *)
(* is not the password.                                                    *)
HashVerifyRoundTrip ==
  /\ (call.op = "verifyPassword" /\ ~IsNull(call.hashedFrom)) =>
       call.value = (call.password = call.hashedFrom[1])
  /\ call.op = "hashPassword" =>
       LET parts == split(call.value[1], ":")
       IN  /\ Len(parts) = 2
           /\ parts[1] = generateSalt(call.randomBytes)
           /\ Len(parts[1]) = 2 * SaltBytes
           /\ parts[2] = digestStringAsync(call.password \o parts[1])
           /\ call.value[1] /= call.password

(* a password containing the delimiter was verified against its own hash  *)
HashVerifyRoundTripWitness ==
  /\ call.op = "verifyPassword"
  /\ ~IsNull(call.hashedFrom)
  /\ call.password = call.hashedFrom[1]
  /\ \E i \in 1..Len(call.password) : call.password[i] = ":"
  /\ call.value

----------------------------------------------------------------------------
(* Properties of profile updates, checked under SpecProfile *)

profilesOf(d, userId) == { r \in d.user_profiles : r.user_id = userId }

(* caller p has just run the write of its createOrUpdateProfile call *)
wrote(p) == tasks[p].pc = "write" /\ tasks'[p].pc = "done"

(* the row holds the fields of the profile data *)
holds(r, profileData) ==
  /\ r.age = profileData.age
  /\ r.weight = profileData.weight
  /\ r.height = profileData.height
  /\ r.gender = profileData.gender
  /\ r.fitness_goal = profileData.fitness_goal

(* C28: every registered user has exactly one profile row, and a          *)
(* createOrUpdateProfile call for a registered user succeeds and leaves    *)
(* that row holding the fields it was given, also when two calls for the   *)
(* user overlap between the SELECT and the write.                          *)
OneProfilePerUser ==
  [][ \A u \in db'.users :
        /\ Cardinality(profilesOf(db', u.id)) = 1
        /\ \A p \in Callers :
             (wrote(p) /\ tasks[p].userId = u.id) =>
               /\ tasks'[p].ok
               /\ \A r \in profilesOf(db', u.id) :
                    holds(r, tasks[p].profileData) ]_vars

----------------------------------------------------------------------------
(* Isolation of the users' data, checked under SpecStore *)

(* C29: getActivitiesByUser(u) returns only activities owned by u,        *)
(* getActivityLogsForDate(u, d) only logs of u on d, and an operation of   *)
(* another user on that user's own data changes neither result for u.      *)
UserDataIsolated ==
  [][ \A u \in UserIds :
        /\ \A a \in getActivitiesByUser(db', u) : a.user_id = u
        /\ \A date \in Dates :
             \A r \in getActivityLogsForDate(db', u, date) :
               r.log.user_id = u /\ r.log.log_date = date
        /\ \A v \in UserIds \ {u} :
             ( /\ call'.op \in {"createActivity", "logActivity"}
               /\ call'.userId = v
               /\ call'.op = "logActivity" =>
                    /\ activityById(db, call'.activityId) /= Null
                    /\ activityById(db, call'.activityId)[1].user_id = v ) =>
               /\ getActivitiesByUser(db', u) = getActivitiesByUser(db, u)
               /\ \A date \in Dates :
                    getActivityLogsForDate(db', u, date)
                      = getActivityLogsForDate(db, u, date) ]_vars

----------------------------------------------------------------------------
(* Failures of register, checked under SpecRegister *)

(* C30: a register call that failed after its user row was inserted       *)
(* leaves no user row, no profile and no default activity of that user.    *)
RegisterAtomic ==
  \A p \in Callers :
    ( /\ tasks[p].op = "register" /\ tasks[p].pc = "done"
      /\ ~tasks[p].ok /\ tasks[p].userId /= 0 ) =>
      /\ IsNull(getUserByEmail(db, toLowerCase(tasks[p].email)))
      /\ IsNull(getUserById(db, tasks[p].userId))
      /\ profilesOf(db, tasks[p].userId) = {}
      /\ getActivitiesByUser(db, tasks[p].userId) = {}

----------------------------------------------------------------------------
(* Calls on ids that do not exist, checked under SpecProbe *)

(* C31: logActivity, updateActivity and deleteActivity on an activity id  *)
(* that does not exist, and changePassword on a user id that does not      *)
(* exist, fail with a NotFound error and leave the store as it was.        *)
MissingIdIsNotFound ==
  [][ ( \/ /\ tasks' = tasks
           /\ call'.op \in {"logActivity", "updateActivity", "deleteActivity"}
           /\ IsNull(activityById(db, call'.activityId))
        \/ /\ \E p \in Callers : tasks[p].pc /= "done" /\ tasks'[p] = call'
           /\ call'.op = "changePassword"
           /\ IsNull(getUserById(db, call'.userId)) ) =>
        /\ ~call'.ok
        /\ call'.error = "NotFound"
        /\ db' = db ]_vars

----------------------------------------------------------------------------
(* The counts of getActivityStats, checked under SpecStats *)

(* the active activities of the user of the last getActivityStats call *)
activeInCall ==
  { fa \in db.fitness_activities :
      fa.user_id = call.userId /\ fa.is_active = 1 }

(* C32: for every active activity of the user with at least one log in    *)
(* the range, getActivityStats returns one row with total_count the number *)
(* of those logs, completed_count the number of them with completed = 1    *)
(* and completion_rate = 100 * completed_count / total_count, so           *)
(* 0 <= completed_count <= total_count and 0 <= completion_rate <= 100;    *)
(* every row returned is of an active activity of the user.                *)
StatsCountsLogs ==
  call.op = "getActivityStats" =>
    /\ \A fa \in activeInCall \ unloggedInCall :
         LET logs == logsInRange(db, fa.id, call.startDate, call.endDate)
             done == { l \in logs : l.completed = 1 }
             rows == { row \in call.value : row.id = fa.id }
         IN  /\ Cardinality(rows) = 1
             /\ \A row \in rows :
                  /\ row.total_count = Cardinality(logs)
                  /\ row.completed_count = Cardinality(done)
                  /\ row.completed_count >= 0
                  /\ row.completed_count <= row.total_count
                  /\ ~IsNull(row.completion_rate)
                  /\ row.completion_rate[1].num * row.total_count
                       = 100 * row.completed_count * row.completion_rate[1].den
                  /\ row.completion_rate[1].num >= 0
                  /\ row.completion_rate[1].num
                       <= 100 * row.completion_rate[1].den
    /\ \A row \in call.value : \E fa \in activeInCall : fa.id = row.id

(* a stats call over a range in which an activity of the user has two     *)
(* logs, one completed and one not, while the other user has an activity   *)
StatsCountsLogsWitness ==
  /\ call.op = "getActivityStats"
  /\ \E fa \in activeInCall :
       /\ \E l \in logsInRange(db, fa.id, call.startDate, call.endDate) :
            l.completed = 1
       /\ \E l \in logsInRange(db, fa.id, call.startDate, call.endDate) :
            l.completed = 0
  /\ \E fa \in db.fitness_activities : fa.user_id /= call.userId

----------------------------------------------------------------------------
(* The session in memory and in storage, checked under SpecAuth *)

(* C33: whenever no login or logout call is in flight, currentUser is the *)
(* user of the stored session: both absent, or both the same user.         *)
MemoryMatchesStorage ==
  quiescent =>
    IF IsNull(storage)
      THEN IsNull(currentUser)
      ELSE /\ ~IsNull(currentUser)
           /\ JSONparse(storage[1]).user = currentUser[1]

----------------------------------------------------------------------------
(* Rejected calls and the session, checked under Spec *)

(* the last call is a login or register call that failed *)
rejected ==
  justReturned /\ call.op \in {"login", "register"} /\ ~call.ok

(* C34: a login or register call that fails leaves the stored session and *)
(* currentUser as they were when the call started.                         *)
RejectedCallKeepsSession ==
  rejected => call.sessionBefore = session

(* a login with a wrong password for a stored email was rejected while a  *)
(* user is authenticated, and that user's session is in storage and in     *)
(* memory                                                                  *)
RejectedCallKeepsSessionWitness ==
  /\ rejected
  /\ call.op = "login" /\ call.digests = 1
  /\ ~IsNull(call.authed)
  /\ currentUser = Some(call.authed[1].user)
  /\ storage = Some(JSONstringify([user |-> call.authed[1].user]))

----------------------------------------------------------------------------
(* What logActivity keeps of the row it replaces, checked under SpecStore *)

logsOn(d, activityId, date) ==
  { l \in d.activity_logs : l.activity_id = activityId /\ l.log_date = date }

(* C35: a logActivity call that gives no actual_value and no notes, on a  *)
(* day whose log of the activity has some, leaves one row for (activity,   *)
(* date) whose actual_value and notes are null.                            *)
LogReplacesWholeRecord ==
  [][ ( /\ call'.op = "logActivity"
        /\ IsNull(call'.actualValue) /\ IsNull(call'.notes)
        /\ \E l \in logsOn(db, call'.activityId, call'.date) :
             ~IsNull(l.actual_value) \/ ~IsNull(l.notes) ) =>
        /\ Cardinality(logsOn(db', call'.activityId, call'.date)) = 1
        /\ \A l \in logsOn(db', call'.activityId, call'.date) :
             IsNull(l.actual_value) /\ IsNull(l.notes) ]_vars

(* the last call gave no actual_value and no notes and replaced a row     *)
(* that had both; the row of that activity and day has neither             *)
LogReplacesWholeRecordWitness ==
  /\ call.op = "logActivity"
  /\ IsNull(call.actualValue) /\ IsNull(call.notes)
  /\ \E l \in call.replaced : ~IsNull(l.actual_value) /\ ~IsNull(l.notes)
  /\ \A l \in logsOn(db, call.activityId, call.date) :
       IsNull(l.actual_value) /\ IsNull(l.notes)

----------------------------------------------------------------------------
(* Ownership of the logs, checked under SpecStore *)

(* C36: every activity_logs row references an activity that exists, and   *)
(* its user_id is the user_id of that activity.                            *)
LogsOwnedByActivityOwner ==
  \A l \in db.activity_logs :
    /\ ~IsNull(activityById(db, l.activity_id))
    /\ activityById(db, l.activity_id)[1].user_id = l.user_id

====
